---- MODULE Spec2Model ----
(***************************************************************************)
(* HeunDiscreteScheduler (ppdiffusers/schedulers/scheduling_heun_discrete) *)
(* as a state machine.                                                     *)
(*                                                                         *)
(* Numbers.  Every float of the code is a fixed-point integer counting     *)
(* units of 1/Q (sigmas, timesteps, samples, model outputs, derivatives)   *)
(* or of 1/P (betas, alphas, alphas_cumprod).  Products and quotients      *)
(* round towards minus infinity after every operation, as a float          *)
(* operation rounds after every operation.  set_timesteps computes in      *)
(* float64 (units of 1/Q) and casts its arrays to float32, which keeps     *)
(* fewer digits: Float32 rounds to a grid twice as coarse.                 *)
(*                                                                         *)
(* None is the empty sequence <<>>, a present value v is <<v>>.            *)
(* Sequences are 1-based; the code's 0-based indices are kept and read     *)
(* through At, which also gives Python's meaning to a negative index.      *)
(*                                                                         *)
(* Specifications.  Spec: the calls of one scheduler instance.  SpecLoops: *)
(* two LDMPipeline denoising loops.  SpecBuild: the constructor and        *)
(* _sigma_to_t.  SpecUnclip: UnCLIPImageVariationPipeline's two loops.     *)
(* SpecDance: DanceDiffusionPipeline's audio length.  SpecDeprecate:       *)
(* utils.deprecate.                                                        *)
(***************************************************************************)
EXTENDS Integers, Sequences, FiniteSets, TLC

\* ------------------------------------------------------------ bounds
\* largest num_inference_steps passed to set_timesteps
MaxN == 3
\* largest num_train_timesteps a scheduler is constructed with
MaxTrain == 4
\* largest decoder_num_inference_steps and super_res_num_inference_steps
MaxUnclipSteps == 2
\* step calls since the last set_timesteps in a run that has left the order of timesteps
MaxCalls == 3
\* longest audio_length_in_s passed to DanceDiffusionPipeline, in half seconds
MaxHalfSeconds == 10
\* largest len(unet.up_blocks) of a DanceDiffusionPipeline
MaxUpBlocks == 2
\* most deprecation tuples passed to one deprecate call
MaxTuples == 2

\* ------------------------------------------------------------ numbers
Q == 6 * 120
P == 128 * 128

None == <<>>
Some(v) == <<v>>
IsNone(o) == o = <<>>
Val(o) == o[1]

\* a * b and a / b on fixed-point numbers (b # 0)
Mul(a, b) == (a * b) \div Q
Div(a, b) == IF b > 0 THEN (a * Q) \div b ELSE ((0 - a) * Q) \div (0 - b)

RECURSIVE Bisect(_, _, _)
\* largest r in lo..hi with r * r <= n  (lo * lo <= n is given)
Bisect(n, lo, hi) ==
    IF lo >= hi THEN lo
    ELSE LET mid == (lo + hi + 1) \div 2
         IN  IF mid * mid <= n THEN Bisect(n, mid, hi) ELSE Bisect(n, lo, mid - 1)

ISqrt(n) == Bisect(n, 0, 46340)
\* x ** 0.5 on fixed-point numbers
Sqrt(x) == ISqrt(x * Q)
\* x ** 0.5 for x up to 4 * 2900000, where x * Q leaves the integer range
SqrtWide(x) == IF x <= 2900000 THEN ISqrt(x * Q) ELSE 2 * ISqrt((x \div 4) * Q)

Range(s) == {s[k] : k \in 1..Len(s)}

RECURSIVE SeqMax(_)
SeqMax(s) ==
    IF Len(s) = 1 THEN s[1]
    ELSE LET m == SeqMax(Tail(s)) IN IF s[1] >= m THEN s[1] ELSE m

\* seq[i] of Python: 0-based, a negative index counts from the end
At(s, i) == IF i >= 0 THEN s[i + 1] ELSE s[Len(s) + i + 1]

\* s[lo:hi] of Python for 0 <= lo: an index past either end is clamped
Slice(s, lo, hi) ==
    LET b == IF hi > Len(s) THEN Len(s) ELSE IF hi < 0 THEN 0 ELSE hi
        a == IF lo < 0 THEN 0 ELSE lo
    IN  [k \in 1..(b - a) |-> s[a + k]]

\* mutant: np.linspace without its endpoint
LinspaceNoEndpoint(stop, num, k) == (k * stop) \div num

\* np.linspace(0, stop, num)[k]; the last point is set to stop exactly
Linspace(stop, num, k) ==
    IF num = 1 THEN 0
    ELSE IF k = num - 1 THEN stop
    ELSE (k * stop) \div (num - 1)

\* paddle.linspace(start, stop, num)[k]
LinspaceFrom(start, stop, num, k) ==
    IF num = 1 THEN start
    ELSE start + (k * (stop - start)) \div (num - 1)

\* ------------------------------------------------------------ configuration
\* the arguments of __init__ : one record per constructed scheduler
PredictionTypes == {"epsilon", "v_prediction", "sample", "other"}

Linear3 ==
    [num_train_timesteps |-> 3, beta_schedule |-> "linear",
     beta_start |-> P \div 4, beta_end |-> (3 * P) \div 4, trained_betas |-> None]
Trained3 ==
    [num_train_timesteps |-> 3, beta_schedule |-> "linear",
     beta_start |-> 0, beta_end |-> 0,
     trained_betas |-> Some(<<P \div 2, (3 * P) \div 4, (3 * P) \div 4>>)]

Config(b, p, k) ==
    [num_train_timesteps |-> b.num_train_timesteps,
     beta_schedule |-> b.beta_schedule,
     beta_start |-> b.beta_start, beta_end |-> b.beta_end,
     trained_betas |-> b.trained_betas,
     prediction_type |-> p, use_karras_sigmas |-> k]

Configs ==
    { Config(Linear3, "epsilon", FALSE), Config(Trained3, "epsilon", TRUE),
      Config(Trained3, "v_prediction", FALSE), Config(Linear3, "v_prediction", TRUE),
      Config(Linear3, "sample", FALSE), Config(Trained3, "other", FALSE) }

\* x ** 0.5 on numbers in units of 1/P
SqrtP(x) == ISqrt(x * P)

\* math.pi / 2 in units of 1/P
HalfPi == (31416 * P) \div 20000

RECURSIVE CosTerms(_, _, _)
\* the terms of the cosine series after the k-th one (term), summed with their signs
CosTerms(x2, term, k) ==
    IF term = 0 \/ k > 8 THEN 0
    ELSE LET next == ((term * x2) \div P) \div ((2 * k + 1) * (2 * k + 2))
         IN  CosTerms(x2, next, k + 1) + (IF k % 2 = 0 THEN 0 - next ELSE next)

\* math.cos(x) for 0 <= x <= pi/2, in units of 1/P
Cos(x) == P + CosTerms((x * x) \div P, P, 0)

\* alpha_bar(i / n) = cos((i / n + 0.008) / 1.008 * pi / 2) ** 2
AlphaBar(i, n) ==
    LET c == Cos(((1000 * i + 8 * n) * HalfPi) \div (1008 * n))
    IN  (c * c) \div P

\* max_beta=0.999
MaxBeta == (999 * P) \div 1000

\* mutant: the betas are not capped at max_beta
BetasForAlphaBarUncapped(num_diffusion_timesteps, max_beta) ==
    [k \in 1..num_diffusion_timesteps |->
        P - (AlphaBar(k, num_diffusion_timesteps) * P)
                \div AlphaBar(k - 1, num_diffusion_timesteps)]

\* betas_for_alpha_bar
betas_for_alpha_bar(num_diffusion_timesteps, max_beta) ==
    [k \in 1..num_diffusion_timesteps |->
        LET b == P - (AlphaBar(k, num_diffusion_timesteps) * P)
                        \div AlphaBar(k - 1, num_diffusion_timesteps)
        IN  IF b < max_beta THEN b ELSE max_beta]

\* self.betas of __init__
Betas(c) ==
    IF ~IsNone(c.trained_betas) THEN Val(c.trained_betas)
    ELSE IF c.beta_schedule = "linear"
    THEN [k \in 1..c.num_train_timesteps |->
            LinspaceFrom(c.beta_start, c.beta_end, c.num_train_timesteps, k - 1)]
    ELSE IF c.beta_schedule = "scaled_linear"
    THEN [k \in 1..c.num_train_timesteps |->
            LET r == LinspaceFrom(SqrtP(c.beta_start), SqrtP(c.beta_end),
                                  c.num_train_timesteps, k - 1)
            IN  (r * r) \div P]
    ELSE betas_for_alpha_bar(c.num_train_timesteps, MaxBeta)

\* __init__: how the constructor ends.  trained_betas are taken as they are,
\* whatever their length; without them an unknown beta_schedule raises.
ConstructOutcome(c) ==
    IF ~IsNone(c.trained_betas) THEN "ok"
    ELSE IF c.beta_schedule \in {"linear", "scaled_linear", "squaredcos_cap_v2"} THEN "ok"
    ELSE "NotImplementedError"

\* self.alphas = 1.0 - self.betas
Alphas(betas) == [k \in 1..Len(betas) |-> P - betas[k]]

RECURSIVE CumProd(_)
\* paddle.cumprod(self.alphas, 0)
CumProd(a) ==
    IF Len(a) = 0 THEN <<>>
    ELSE IF Len(a) = 1 THEN a
    ELSE LET front == CumProd(SubSeq(a, 1, Len(a) - 1))
         IN  Append(front, (front[Len(front)] * a[Len(a)]) \div P)

\* ((1 - alphas_cumprod) / alphas_cumprod) ** 0.5, the training sigma table
\* a zero alphas_cumprod gives an infinite sigma; the largest finite one stands for it
TrainSigmas(ac) ==
    [k \in 1..Len(ac) |->
        IF ac[k] <= 0 THEN SqrtWide((P - 1) * Q) ELSE SqrtWide(((P - ac[k]) * Q) \div ac[k])]

\* np.interp(x, np.arange(0, len(tab)), tab): linear, clamped at both ends
Interp(x, tab) ==
    IF x <= 0 THEN tab[1]
    ELSE IF x >= (Len(tab) - 1) * Q THEN tab[Len(tab)]
    ELSE LET k == x \div Q
             f == x % Q
         IN  tab[k + 1] + (f * (tab[k + 2] - tab[k + 1])) \div Q

\* .astype(np.float32), .cast(paddle.float32) of a float64 array
Float32(x) == (x \div 2) * 2
Float32Seq(s) == [k \in 1..Len(s) |-> Float32(s[k])]

\* x.repeat_interleave(2)
RepeatInterleave2(s) == [k \in 1..(2 * Len(s)) |-> s[(k + 1) \div 2]]

\* mutant: the first entry duplicated too, so sigmas[j] no longer pairs with timesteps[j]
DupSigmasFromFirst(s) ==
    RepeatInterleave2(SubSeq(s, 1, Len(s) - 2)) \o SubSeq(s, Len(s) - 1, Len(s))

\* [sigmas[:1], sigmas[1:-1].repeat_interleave(2), sigmas[-1:]]
DupSigmas(s) ==
    SubSeq(s, 1, 1) \o RepeatInterleave2(SubSeq(s, 2, Len(s) - 1)) \o SubSeq(s, Len(s), Len(s))

\* mutant: the timesteps duplicated the way the sigmas are, the last entry left single
DupTimestepsInteriorOnly(ts) ==
    Slice(ts, 0, 1) \o RepeatInterleave2(Slice(ts, 1, Len(ts) - 1))
                   \o Slice(ts, Len(ts) - 1, Len(ts))

\* [timesteps[:1], timesteps[1:].repeat_interleave(2)]
DupTimesteps(ts) ==
    Slice(ts, 0, 1) \o RepeatInterleave2(Slice(ts, 1, Len(ts)))

\* ------------------------------------------------------------ Karras sigmas
\* 7.0 is the value used in the paper
Rho == 7

RECURSIVE PowInt(_, _)
\* x ** n for a whole n >= 1, rounding after every product
PowInt(x, n) == IF n = 1 THEN x ELSE Mul(PowInt(x, n - 1), x)

RECURSIVE PowCapped(_, _, _)
\* PowInt(r, n), except that for r >= 1 a partial product already above cap is returned as it is
PowCapped(r, n, cap) ==
    IF n = 1 THEN r
    ELSE LET p == PowCapped(r, n - 1, cap)
         IN  IF p > cap /\ r >= Q THEN p ELSE Mul(p, r)

RECURSIVE RootBisect(_, _, _, _)
RootBisect(x, n, lo, hi) ==
    IF lo >= hi THEN lo
    ELSE LET mid == (lo + hi + 1) \div 2
         IN  IF PowCapped(mid, n, x) <= x THEN RootBisect(x, n, mid, hi)
             ELSE RootBisect(x, n, lo, mid - 1)

\* x ** (1 / n) for x > 0: the largest r whose n-th power is at most x
RootInt(x, n) == RootBisect(x, n, 0, IF x > Q THEN x ELSE Q)

\* bits of the fraction of a logarithm
LogBits == 2 * 5

RECURSIVE Log2Frac(_, _, _)
\* fraction of log2(m / Q) for Q <= m < 2Q, by repeated squaring: bit b is worth Q / 2^b
Log2Frac(m, b, w) ==
    IF b > LogBits THEN 0
    ELSE LET sq == (m * m) \div Q
         IN  IF sq >= 2 * Q THEN (w \div 2) + Log2Frac(sq \div 2, b + 1, w \div 2)
             ELSE Log2Frac(sq, b + 1, w \div 2)

RECURSIVE Log2(_)
\* log2 of a fixed-point x > 0, as a fixed-point number
Log2(x) ==
    IF x >= 2 * Q THEN Q + Log2(x \div 2)
    ELSE IF x < Q THEN Log2(2 * x) - Q
    ELSE Log2Frac(x, 1, Q)

\* np.log
Ln(x) == (Log2(x) * 693) \div 1000

\* np.cumsum((dists >= 0), axis=0).argmax(axis=0): the first index at which the
\* running count of log_sigmas entries <= log_sigma reaches its final value
CumsumArgmax(log_sigma, log_sigmas) ==
    LET cnt(k) == Cardinality({j \in 1..k : log_sigma - log_sigmas[j] >= 0})
        top == cnt(Len(log_sigmas))
    IN  (CHOOSE k \in 1..Len(log_sigmas) :
            /\ cnt(k) = top
            /\ \A j \in 1..(k - 1) : cnt(j) < top) - 1

\* mutant: nothing is clipped
ClipNone(x, lo, hi) == x

\* np.clip(x, lo, hi)
Clip(x, lo, hi) == IF x < lo THEN lo ELSE IF x > hi THEN hi ELSE x

\* low_idx of _sigma_to_t: the argmax clipped to len(log_sigmas) - 2
SigmaToTLowIdx(sigma, log_sigmas) ==
    LET raw == CumsumArgmax(Ln(sigma), log_sigmas)
    IN  IF raw > Len(log_sigmas) - 2 THEN Len(log_sigmas) - 2 ELSE raw

\* mutant: the interpolation weights of the two neighbours are swapped
SigmaToTSwappedWeights(sigma, log_sigmas) ==
    LET log_sigma == Ln(sigma)
        raw == CumsumArgmax(log_sigma, log_sigmas)
        low_idx == IF raw > Len(log_sigmas) - 2 THEN Len(log_sigmas) - 2 ELSE raw
        high_idx == low_idx + 1
        low == At(log_sigmas, low_idx)
        high == At(log_sigmas, high_idx)
        w == Clip(Div(low - log_sigma, low - high), 0, Q)
    IN  Mul(w, low_idx * Q) + Mul(Q - w, high_idx * Q)

\* _sigma_to_t: the fractional training index of sigma
SigmaToT(sigma, log_sigmas) ==
    LET log_sigma == Ln(sigma)
        low_idx == SigmaToTLowIdx(sigma, log_sigmas)
        high_idx == low_idx + 1
        low == At(log_sigmas, low_idx)
        high == At(log_sigmas, high_idx)
        w == Clip(Div(low - log_sigma, low - high), 0, Q)
    IN  Mul(Q - w, low_idx * Q) + Mul(w, high_idx * Q)

\* _convert_to_karras
ConvertToKarras(in_sigmas, num_inference_steps) ==
    LET sigma_min == At(in_sigmas, -1)
        sigma_max == At(in_sigmas, 0)
        min_inv_rho == RootInt(sigma_min, Rho)
        max_inv_rho == RootInt(sigma_max, Rho)
    IN  [k \in 1..num_inference_steps |->
            PowInt(max_inv_rho
                     + Mul(Linspace(Q, num_inference_steps, k - 1), min_inv_rho - max_inv_rho),
                   Rho)]

\* ------------------------------------------------------------ the scheduler
\* A scheduler instance is a record of the fields of self:
\*   config, betas, alphas_cumprod, use_karras_sigmas, num_inference_steps,
\*   timesteps, sigmas, init_noise_sigma, prev_derivative, dt, sample.

\* state_in_first_order
state_in_first_order(self) == IsNone(self.dt)

\* set_timesteps, the arrays it builds: [timesteps, sigmas, init_noise_sigma].
\* config_ntt is self.config.num_train_timesteps; ntt is the argument, None or Some(n);
\* karras is what self.use_karras_sigmas reads as.
BuildSchedule(config_ntt, alphas_cumprod, num_inference_steps, ntt, karras) ==
    LET num_train_timesteps == IF IsNone(ntt) \/ Val(ntt) = 0 THEN config_ntt ELSE Val(ntt)
        lin == [k \in 1..num_inference_steps |->
                  Linspace((num_train_timesteps - 1) * Q, num_inference_steps,
                           num_inference_steps - k)]
        train == TrainSigmas(alphas_cumprod)
        log_sigmas == [k \in 1..Len(train) |-> Ln(train[k])]
        interp == [k \in 1..num_inference_steps |-> Interp(lin[k], train)]
        sig == IF karras THEN ConvertToKarras(interp, num_inference_steps) ELSE interp
        ts == IF karras
              THEN [k \in 1..num_inference_steps |-> SigmaToT(sig[k], log_sigmas)]
              ELSE lin
        sigmas == DupSigmas(Float32Seq(Append(sig, 0)))
    IN  [timesteps |-> Float32Seq(DupTimesteps(ts)), sigmas |-> sigmas,
         init_noise_sigma |-> SeqMax(sigmas),
         \* the locals timesteps and sigmas as they are before lines 189 and 196
         pre_timesteps |-> ts, pre_sigmas |-> Float32Seq(Append(sig, 0))]

\* the arguments the callers of this model pass as num_train_timesteps
NttArgs(c) == {None, Some(c.num_train_timesteps - 1)}

\* BuildSchedule for the configurations and arguments of this model, evaluated once
ScheduleTable ==
    [c \in Configs |->
       [n \in 1..MaxN |->
          [ntt \in NttArgs(c) \cup {Some(c.num_train_timesteps)} |->
             BuildSchedule(c.num_train_timesteps, CumProd(Alphas(Betas(c))), n, ntt,
                           c.use_karras_sigmas)]]]

AlphasCumprodTable == [c \in Configs |-> CumProd(Alphas(Betas(c)))]

\* mutant: dt is left as it was
EmptyStateKeepsDt(self) == [self EXCEPT !.prev_derivative = None]

\* set_timesteps, "empty dt and derivative"
EmptyState(self) == [self EXCEPT !.prev_derivative = None, !.dt = None]

\* set_timesteps: how the call ends.  Nothing checks num_inference_steps:
\* np.linspace raises ValueError for a negative count, and for a count of 0
\* _convert_to_karras raises IndexError on in_sigmas[-1] of an empty array,
\* while without Karras sigmas the call returns.
SetTimestepsOutcome(num_inference_steps, karras) ==
    IF num_inference_steps < 0 THEN "ValueError"
    ELSE IF num_inference_steps = 0 /\ karras THEN "IndexError"
    ELSE "ok"

\* mutant: called while a corrector sub-step is pending, the new schedule
\* starts at its second entry
SetTimestepsResumesPending(self, num_inference_steps, ntt, karras) ==
    LET s == BuildSchedule(self.config.num_train_timesteps, self.alphas_cumprod,
                           num_inference_steps, ntt, karras)
        skip == IF IsNone(self.dt) \/ s.timesteps = <<>> THEN 0 ELSE 1
    IN  IF SetTimestepsOutcome(num_inference_steps, karras) # "ok"
        THEN [self EXCEPT !.num_inference_steps = Some(num_inference_steps)]
        ELSE EmptyState([self EXCEPT !.num_inference_steps = Some(num_inference_steps),
                                     !.sigmas = Slice(s.sigmas, skip, Len(s.sigmas)),
                                     !.init_noise_sigma = s.init_noise_sigma,
                                     !.timesteps = Slice(s.timesteps, skip, Len(s.timesteps))])

\* set_timesteps(num_inference_steps, num_train_timesteps): the instance afterwards.
\* A raising call has assigned self.num_inference_steps and nothing else.
SetTimestepsFn(self, num_inference_steps, ntt, karras) ==
    LET c == self.config
        tabled == /\ c \in Configs
                  /\ num_inference_steps \in 1..MaxN
                  /\ ntt \in NttArgs(c) \cup {Some(c.num_train_timesteps)}
                  /\ karras = c.use_karras_sigmas
                  /\ self.alphas_cumprod = AlphasCumprodTable[c]
        s == IF tabled THEN ScheduleTable[c][num_inference_steps][ntt]
             ELSE BuildSchedule(c.num_train_timesteps, self.alphas_cumprod,
                                num_inference_steps, ntt, karras)
    IN  IF SetTimestepsOutcome(num_inference_steps, karras) # "ok"
        THEN [self EXCEPT !.num_inference_steps = Some(num_inference_steps)]
        ELSE EmptyState([self EXCEPT !.num_inference_steps = Some(num_inference_steps),
                                     !.sigmas = s.sigmas,
                                     !.init_noise_sigma = s.init_noise_sigma,
                                     !.timesteps = s.timesteps])

\* mutant: __init__ installs no schedule
ConstructWithoutSchedule(c) ==
    [config |-> c,
     betas |-> Betas(c),
     alphas_cumprod |-> CumProd(Alphas(Betas(c))),
     use_karras_sigmas |-> c.use_karras_sigmas,
     num_inference_steps |-> None,
     timesteps |-> <<>>, sigmas |-> <<0>>, init_noise_sigma |-> 0,
     prev_derivative |-> None, dt |-> None, sample |-> None]

\* __init__: the constructed instance.  set_timesteps runs before the attribute
\* use_karras_sigmas is assigned, so its read of self.use_karras_sigmas falls
\* through to the registered config value.
Construct(c) ==
    LET blank == [config |-> c,
                  betas |-> Betas(c),
                  alphas_cumprod |-> CumProd(Alphas(Betas(c))),
                  use_karras_sigmas |-> c.use_karras_sigmas,
                  num_inference_steps |-> None,
                  timesteps |-> <<>>, sigmas |-> <<>>, init_noise_sigma |-> 0,
                  prev_derivative |-> None, dt |-> None, sample |-> None]
    IN  SetTimestepsFn(blank, c.num_train_timesteps, Some(c.num_train_timesteps),
                       c.use_karras_sigmas)

\* (schedule_timesteps == timestep).nonzero(): the matching 0-based indices
Matches(schedule_timesteps, timestep) ==
    {k - 1 : k \in {j \in 1..Len(schedule_timesteps) : schedule_timesteps[j] = timestep}}

SetMax(S) == CHOOSE m \in S : \A x \in S : x <= m
SetMin(S) == CHOOSE m \in S : \A x \in S : m <= x

\* mutant: a timestep that is not in the schedule resolves to the nearest entry
IndexOfNearest(self, timestep, schedule_timesteps) ==
    LET dist(k) == IF schedule_timesteps[k] >= timestep
                   THEN schedule_timesteps[k] - timestep
                   ELSE timestep - schedule_timesteps[k]
        near == {k \in 1..Len(schedule_timesteps) :
                    \A j \in 1..Len(schedule_timesteps) : dist(k) <= dist(j)}
    IN  IF near = {} THEN -1
        ELSE IF IsNone(self.dt) THEN SetMax(near) - 1
        ELSE SetMin(near) - 1

\* mutant: the tie-break of the two phases swapped
IndexTieBreakSwapped(self, timestep, schedule_timesteps) ==
    LET indices == Matches(schedule_timesteps, timestep)
    IN  IF indices = {} THEN -1
        ELSE IF state_in_first_order(self) THEN SetMin(indices)
        ELSE SetMax(indices)

\* mutant: the first match in both phases
IndexFirstMatchAlways(self, timestep, schedule_timesteps) ==
    LET indices == Matches(schedule_timesteps, timestep)
    IN  IF indices = {} THEN -1 ELSE SetMin(indices)

\* index_for_timestep: indices[-1] in first order, indices[0] otherwise;
\* -1 stands for the IndexError of indexing an empty result
index_for_timestep(self, timestep, schedule_timesteps) ==
    LET indices == Matches(schedule_timesteps, timestep)
    IN  IF indices = {} THEN -1
        ELSE IF state_in_first_order(self) THEN SetMax(indices)
        ELSE SetMin(indices)

\* scale_model_input: [outcome, index, sigma, result]
ScaleModelInputFn(self, sample, timestep) ==
    LET step_index == index_for_timestep(self, timestep, self.timesteps)
    IN  IF step_index < 0
        THEN [outcome |-> "LookupError", index |-> step_index, sigma |-> 0, result |-> 0]
        ELSE LET sigma == At(self.sigmas, step_index)
             IN  [outcome |-> "ok", index |-> step_index, sigma |-> sigma,
                  result |-> Div(sample, Sqrt(Mul(sigma, sigma) + Q))]

\* mutant: add_noise reads the sigma one entry further on
AddNoiseFnNextSigma(self, original_samples, noise, timestep) ==
    LET step_index == index_for_timestep(self, timestep, self.timesteps)
    IN  IF step_index < 0
        THEN [outcome |-> "LookupError", index |-> step_index, sigma |-> 0, result |-> 0]
        ELSE LET sigma == At(self.sigmas, step_index + 1)
             IN  [outcome |-> "ok", index |-> step_index, sigma |-> sigma,
                  result |-> original_samples + Mul(noise, sigma)]

\* add_noise for a batch of one: [outcome, index, sigma, result]
AddNoiseFn(self, original_samples, noise, timestep) ==
    LET step_index == index_for_timestep(self, timestep, self.timesteps)
    IN  IF step_index < 0
        THEN [outcome |-> "LookupError", index |-> step_index, sigma |-> 0, result |-> 0]
        ELSE LET sigma == At(self.sigmas, step_index)
             IN  [outcome |-> "ok", index |-> step_index, sigma |-> sigma,
                  result |-> original_samples + Mul(noise, sigma)]

\* mutant: "sample" is computed the way v_prediction is
PredictionTypeOutcomeSampleAccepted(prediction_type) ==
    IF prediction_type \in {"epsilon", "v_prediction", "sample"} THEN "ok"
    ELSE "ValueError"

\* 1. of step, the branch on self.config.prediction_type: how it ends
PredictionTypeOutcome(prediction_type) ==
    IF prediction_type \in {"epsilon", "v_prediction"} THEN "ok"
    ELSE IF prediction_type = "sample" THEN "NotImplementedError"
    ELSE "ValueError"

\* 1. of step: the predicted original sample
PredOriginal(prediction_type, sample, model_output, sigma_input) ==
    IF prediction_type = "epsilon"
    THEN sample - Mul(sigma_input, model_output)
    ELSE LET d == Mul(sigma_input, sigma_input) + Q
         IN  Mul(model_output, Div(0 - sigma_input, Sqrt(d))) + Div(sample, d)

\* mutant: dt is not stored
StoreStateWithoutDt(self, derivative, dt, sample) ==
    [self EXCEPT !.prev_derivative = Some(derivative), !.sample = Some(sample)]

\* mutant: the increment derivative * dt is stored in place of the derivative
StoreStateIncrement(self, derivative, dt, sample) ==
    [self EXCEPT !.prev_derivative = Some(Mul(derivative, dt)), !.dt = Some(dt),
                 !.sample = Some(sample)]

\* step, "store for 2nd order step"
StoreState(self, derivative, dt, sample) ==
    [self EXCEPT !.prev_derivative = Some(derivative), !.dt = Some(dt), !.sample = Some(sample)]

\* mutant: the derivative is not freed
FreeStateKeepsDerivative(self) == [self EXCEPT !.dt = None, !.sample = None]

\* mutant: dt is not freed
FreeStateKeepsDt(self) == [self EXCEPT !.prev_derivative = None, !.sample = None]

\* step, "free dt and derivative": this puts the scheduler in first order mode
FreeState(self) == [self EXCEPT !.prev_derivative = None, !.dt = None, !.sample = None]

\* step: [outcome, index, sigma, sigma_next, result, self]
\* (self is the instance after the call; a raising call leaves it as it was)
\* mutant: the corrector advances from the sample it is given
CorrectorResultFromArgument(self, derivative, sample) ==
    sample + Mul(derivative, Val(self.dt))

\* dt = self.dt; sample = self.sample; prev_sample = sample + derivative * dt
CorrectorResult(self, derivative, sample) ==
    Val(self.sample) + Mul(derivative, Val(self.dt))

StepFn(self, model_output, timestep, sample) ==
    LET step_index == index_for_timestep(self, timestep, self.timesteps)
        first == state_in_first_order(self)
        fail(e) == [outcome |-> e, index |-> step_index, sigma |-> 0, sigma_next |-> 0,
                    result |-> 0, self |-> self]
    IN  IF step_index < 0 THEN fail("LookupError")
        ELSE IF PredictionTypeOutcome(self.config.prediction_type) # "ok"
        THEN fail(PredictionTypeOutcome(self.config.prediction_type))
        ELSE
        LET sigma == IF first THEN At(self.sigmas, step_index)
                     ELSE At(self.sigmas, step_index - 1)
            sigma_next == IF first THEN At(self.sigmas, step_index + 1)
                          ELSE At(self.sigmas, step_index)
            sigma_hat == sigma
            sigma_input == IF first THEN sigma_hat ELSE sigma_next
            pred_original_sample ==
                PredOriginal(self.config.prediction_type, sample, model_output, sigma_input)
        IN  IF first
            THEN LET derivative == Div(sample - pred_original_sample, sigma_hat)
                     dt == sigma_next - sigma_hat
                 IN  [outcome |-> "ok", index |-> step_index,
                      sigma |-> sigma, sigma_next |-> sigma_next,
                      result |-> sample + Mul(derivative, dt),
                      self |-> StoreState(self, derivative, dt, sample)]
            ELSE LET derivative2 == Div(sample - pred_original_sample, sigma_next)
                     derivative == (Val(self.prev_derivative) + derivative2) \div 2
                     dt == Val(self.dt)
                 IN  [outcome |-> "ok", index |-> step_index,
                      sigma |-> sigma, sigma_next |-> sigma_next,
                      result |-> CorrectorResult(self, derivative, sample),
                      self |-> FreeState(self)]

\* ------------------------------------------------------------ state
VARIABLES
    sch,        \* the scheduler instances: instance id -> fields of self
    last,       \* the most recent call and what it returned or raised
    calls,      \* step calls that returned since the last set_timesteps
    inOrder,    \* every step call since the last set_timesteps was the next entry of timesteps
    explicitSet, \* a caller has called set_timesteps since construction
    loops,      \* the running pipeline calls: loop id -> position and local variables
    owner,      \* instance id -> the loop whose predictor stored the pending state, or 0
    setArgs,    \* the arguments of the most recent set_timesteps call that returned,
                \* and whether the returning call before it had the same arguments
    build       \* the configuration __init__ is called with

vars == <<sch, last, calls, inOrder, explicitSet, loops, owner, setArgs, build>>

\* arguments the callers pass
ModelOutputs == {0 - Q}
Samples == {Q, 3 * Q}
Originals == {2 * Q}
Noises == {0 - Q}
\* timesteps that need not be in the schedule: off the grid, stale, out of range
ProbeTimesteps(c) == {Q \div 4, Q}
TimestepArgs(self) == Range(self.timesteps) \cup ProbeTimesteps(self.config)

\* pair: the (sigma, sigma_next) that the most recent returning step call of the
\* current schedule read; args: the tensors a step call was given
Call(op, inst, n, timestep, first, r) ==
    [op |-> op, inst |-> inst, n |-> n, timestep |-> timestep, first |-> first,
     outcome |-> r.outcome, index |-> r.index, sigma |-> r.sigma, result |-> r.result,
     pair |-> IF op = "step" /\ r.outcome = "ok" THEN <<r.sigma, r.sigma_next>>
              ELSE IF op \in {"init", "none"} \/ (op = "set_timesteps" /\ r.outcome = "ok")
              THEN <<>>
              ELSE last.pair,
     args |-> <<>>]

Returned == [outcome |-> "ok", index |-> 0, sigma |-> 0, result |-> 0]
Raised(e) == [outcome |-> e, index |-> 0, sigma |-> 0, result |-> 0]

\* __init__ calls self.set_timesteps(num_train_timesteps, num_train_timesteps)
InitArgs(c) ==
    [n |-> c.num_train_timesteps, ntt |-> Some(c.num_train_timesteps), repeat |-> FALSE]

\* num_inference_steps the callers pass: none, a negative count, and 1..MaxN
StepCounts == (0 - 1)..MaxN

Init ==
    /\ \E c \in Configs : sch = [i \in {1} |-> Construct(c)] /\ build = c
    /\ last = Call("init", 1, 0, 0, TRUE, Returned)
    /\ calls = 0
    /\ inOrder = TRUE
    /\ explicitSet = FALSE
    /\ loops = <<>>
    /\ owner = [i \in {1} |-> 0]
    /\ setArgs = InitArgs(sch[1].config)

\* scheduler.set_timesteps(num_inference_steps, num_train_timesteps)
SetTimesteps(i, num_inference_steps, ntt) ==
    LET e == SetTimestepsOutcome(num_inference_steps, sch[i].use_karras_sigmas)
    IN  /\ sch' = [sch EXCEPT ![i] = SetTimestepsFn(sch[i], num_inference_steps, ntt,
                                                     sch[i].use_karras_sigmas)]
        /\ last' = Call("set_timesteps", i, num_inference_steps, 0,
                        state_in_first_order(sch[i]), Raised(e))
        /\ calls' = IF e = "ok" THEN 0 ELSE calls
        /\ inOrder' = IF e = "ok" THEN TRUE ELSE inOrder
        /\ explicitSet' = TRUE
        /\ setArgs' = IF e = "ok"
                      THEN [n |-> num_inference_steps, ntt |-> ntt,
                            repeat |-> (setArgs.n = num_inference_steps /\ setArgs.ntt = ntt)]
                      ELSE setArgs
        /\ UNCHANGED <<loops, owner, build>>

\* the call continues a run that has stepped through timesteps in order so far
NextInOrder(i, timestep) ==
    /\ inOrder
    /\ calls < Len(sch[i].timesteps)
    /\ timestep = At(sch[i].timesteps, calls)

\* scheduler.step(model_output, timestep, sample); runs that leave the order of
\* timesteps are followed for MaxCalls calls, runs in order to their end
Step(i, model_output, timestep, sample) ==
    LET r == StepFn(sch[i], model_output, timestep, sample)
    IN  /\ \/ calls < MaxCalls
           \/ NextInOrder(i, timestep)
        /\ sch' = [sch EXCEPT ![i] = r.self]
        /\ last' = [Call("step", i, 0, timestep, state_in_first_order(sch[i]), r)
                        EXCEPT !.args = <<model_output, sample>>]
        /\ calls' = IF r.outcome = "ok" THEN calls + 1 ELSE calls
        /\ inOrder' = (r.outcome = "ok" /\ NextInOrder(i, timestep))
        /\ UNCHANGED <<explicitSet, loops, owner, setArgs, build>>

\* mutant: add_noise keeps original_samples in self.sample
AddNoiseKeepsSample(i, original_samples, noise, timestep) ==
    /\ last' = Call("add_noise", i, 0, timestep, state_in_first_order(sch[i]),
                    AddNoiseFn(sch[i], original_samples, noise, timestep))
    /\ sch' = [sch EXCEPT ![i].sample = Some(original_samples)]
    /\ UNCHANGED <<calls, inOrder, explicitSet, loops, owner, setArgs, build>>

\* scheduler.add_noise(original_samples, noise, timesteps)
AddNoise(i, original_samples, noise, timestep) ==
    /\ last' = Call("add_noise", i, 0, timestep, state_in_first_order(sch[i]),
                    AddNoiseFn(sch[i], original_samples, noise, timestep))
    /\ UNCHANGED <<sch, calls, inOrder, explicitSet, loops, owner, setArgs, build>>

\* scheduler.scale_model_input(sample, timestep)
ScaleModelInput(i, sample, timestep) ==
    /\ last' = Call("scale_model_input", i, 0, timestep, state_in_first_order(sch[i]),
                    ScaleModelInputFn(sch[i], sample, timestep))
    /\ UNCHANGED <<sch, calls, inOrder, explicitSet, loops, owner, setArgs, build>>

DoSetTimesteps ==
    \E i \in DOMAIN sch : \E n \in StepCounts : \E ntt \in NttArgs(sch[i].config) :
        SetTimesteps(i, n, ntt)

DoStep ==
    \E i \in DOMAIN sch : \E t \in TimestepArgs(sch[i]) :
        \E m \in ModelOutputs : \E x \in Samples : Step(i, m, t, x)

DoAddNoise ==
    \E i \in DOMAIN sch : \E t \in TimestepArgs(sch[i]) :
        \E o \in Originals : \E e \in Noises : AddNoise(i, o, e, t)

DoScaleModelInput ==
    \E i \in DOMAIN sch : \E t \in TimestepArgs(sch[i]) :
        \E x \in Originals : ScaleModelInput(i, x, t)

Next == DoSetTimesteps \/ DoStep \/ DoAddNoise \/ DoScaleModelInput

Spec == Init /\ [][Next]_vars

\* ------------------------------------------------------------ pipeline loops
\* Two calls of a pipeline's __call__ (LDMPipeline: scale the noise, set_timesteps,
\* then per timestep scale_model_input, unet, step), interleaved between
\* scheduler calls.  They run on one shared scheduler instance or on one each.

\* largest num_inference_steps a pipeline call is given
MaxLoopN == 2

LoopIds == {1, 2}
LoopNoises == {Q, 2 * Q}
LoopConfigs == {c \in Configs : c.prediction_type \in {"epsilon", "v_prediction"}}

\* self.unet(latent_model_input, t).sample: some fixed deterministic model
Unet(latent_model_input, t) == (latent_model_input \div 2) - (t \div 8)

\* mutant: every pipeline call uses the first scheduler instance
SchedulerOfFirst(k) == 1

\* self.scheduler of the pipeline call k
SchedulerOf(k) == IF DOMAIN sch = {1} THEN 1 ELSE k

LoopsInit ==
    /\ \E c \in LoopConfigs : \E insts \in {{1}, {1, 2}} :
          /\ sch = [i \in insts |-> Construct(c)]
          /\ build = c
          /\ owner = [i \in insts |-> 0]
    /\ loops = [k \in LoopIds |->
                  [pc |-> "start", n |-> 0, noise |-> 0, ts |-> <<>>, pos |-> 0,
                   latents |-> 0, input |-> 0, foreign |-> FALSE]]
    /\ last = Call("init", 1, 0, 0, TRUE, Returned)
    /\ calls = 0
    /\ inOrder = TRUE
    /\ explicitSet = FALSE
    /\ setArgs = InitArgs(sch[1].config)

\* latents = randn * init_noise_sigma; set_timesteps(num_inference_steps);
\* the loop then iterates over the timesteps array it read here
LoopStart(k, num_inference_steps, noise) ==
    LET i == SchedulerOf(k)
        after == SetTimestepsFn(sch[i], num_inference_steps, None, sch[i].use_karras_sigmas)
    IN  /\ loops[k].pc = "start"
        /\ sch' = [sch EXCEPT ![i] = after]
        /\ owner' = [owner EXCEPT ![i] = 0]
        /\ loops' = [loops EXCEPT ![k] =
                        [@ EXCEPT !.pc = "scale", !.n = num_inference_steps,
                                  !.noise = noise,
                                  !.latents = Mul(noise, sch[i].init_noise_sigma),
                                  !.ts = after.timesteps]]
        /\ last' = Call("set_timesteps", i, num_inference_steps, 0,
                        state_in_first_order(sch[i]), Returned)
        /\ setArgs' = [n |-> num_inference_steps, ntt |-> None,
                       repeat |-> (setArgs.n = num_inference_steps /\ setArgs.ntt = None)]
        /\ UNCHANGED <<calls, inOrder, explicitSet, build>>

\* latent_model_input = scale_model_input(latents, t); noise_prediction = unet(...)
LoopScale(k) ==
    LET i == SchedulerOf(k)
        t == At(loops[k].ts, loops[k].pos)
        r == ScaleModelInputFn(sch[i], loops[k].latents, t)
    IN  /\ loops[k].pc = "scale"
        /\ loops' = [loops EXCEPT ![k] =
                        IF r.outcome = "ok"
                        THEN [@ EXCEPT !.pc = "step", !.input = Unet(r.result, t)]
                        ELSE [@ EXCEPT !.pc = "failed"]]
        /\ last' = Call("scale_model_input", i, 0, t, state_in_first_order(sch[i]), r)
        /\ UNCHANGED <<sch, owner, calls, inOrder, explicitSet, setArgs, build>>

\* latents = step(noise_prediction, t, latents).prev_sample, and the next t
LoopStep(k) ==
    LET i == SchedulerOf(k)
        t == At(loops[k].ts, loops[k].pos)
        first == state_in_first_order(sch[i])
        r == StepFn(sch[i], loops[k].input, t, loops[k].latents)
    IN  /\ loops[k].pc = "step"
        /\ sch' = [sch EXCEPT ![i] = r.self]
        /\ owner' = [owner EXCEPT ![i] = IF r.outcome # "ok" THEN @
                                         ELSE IF first THEN k ELSE 0]
        /\ loops' = [loops EXCEPT ![k] =
                        IF r.outcome = "ok"
                        THEN [@ EXCEPT !.pc = IF loops[k].pos + 1 = Len(loops[k].ts)
                                              THEN "done" ELSE "scale",
                                       !.pos = @ + 1,
                                       !.latents = r.result,
                                       !.foreign = @ \/ (~first /\ owner[i] # k)]
                        ELSE [@ EXCEPT !.pc = "failed"]]
        /\ last' = [Call("step", i, 0, t, first, r)
                        EXCEPT !.args = <<loops[k].input, loops[k].latents>>]
        /\ UNCHANGED <<calls, inOrder, explicitSet, setArgs, build>>

DoLoopStart == \E k \in LoopIds : \E n \in 1..MaxLoopN : \E e \in LoopNoises : LoopStart(k, n, e)
DoLoopScale == \E k \in LoopIds : LoopScale(k)
DoLoopStep == \E k \in LoopIds : LoopStep(k)

LoopsNext == DoLoopStart \/ DoLoopScale \/ DoLoopStep

SpecLoops == LoopsInit /\ [][LoopsNext]_vars

RECURSIVE SoloIterate(_, _, _, _)
\* a pipeline call alone on its instance: [self, latents] after j iterations of its loop
SoloIterate(self, ts, latents, j) ==
    IF j = 0 THEN [self |-> self, latents |-> latents]
    ELSE LET before == SoloIterate(self, ts, latents, j - 1)
             t == At(ts, j - 1)
             input == Unet(ScaleModelInputFn(before.self, before.latents, t).result, t)
             r == StepFn(before.self, input, t, before.latents)
         IN  [self |-> r.self, latents |-> r.result]

\* the pipeline call (c, num_inference_steps, noise) alone on a fresh instance
Solo(c, num_inference_steps, noise, j) ==
    LET fresh == Construct(c)
        set == SetTimestepsFn(fresh, num_inference_steps, None, fresh.use_karras_sigmas)
    IN  SoloIterate(set, set.timesteps, Mul(noise, fresh.init_noise_sigma), j)

\* ------------------------------------------------------------ construction
\* A caller constructs a scheduler from a configuration and reads the training
\* sigma table back through _sigma_to_t.

\* (beta_start, beta_end) the callers pass
BetaRanges == {<<P \div 64, P \div 8>>, <<P \div 4, (3 * P) \div 4>>, <<P \div 2, P \div 2>>}

\* trained_betas the callers pass: none, or an array of num_train_timesteps
\* entries, or one entry more, or one entry less
TrainedBetas(T) ==
    {None, Some([k \in 1..T |-> P \div 2]), Some([k \in 1..(T + 1) |-> P \div 4])}
    \cup (IF T >= 2 THEN {Some([k \in 1..(T - 1) |-> (k * P) \div T])} ELSE {})

BuildConfigs ==
    {[num_train_timesteps |-> T, beta_schedule |-> b,
      beta_start |-> r[1], beta_end |-> r[2], trained_betas |-> tb,
      prediction_type |-> "epsilon", use_karras_sigmas |-> FALSE] :
        T \in 1..MaxTrain,
        b \in {"linear", "scaled_linear", "squaredcos_cap_v2", "sigmoid"},
        r \in BetaRanges,
        tb \in UNION {TrainedBetas(n) : n \in 1..MaxTrain}}

Supported(c) == IsNone(c.trained_betas) /\ ConstructOutcome(c) = "ok"

BuildInit ==
    /\ build \in {c \in BuildConfigs :
                     c.trained_betas \in TrainedBetas(c.num_train_timesteps)}
    /\ sch = <<>>
    /\ owner = <<>>
    /\ loops = <<>>
    /\ last = Call("none", 1, 0, 0, TRUE, Returned)
    /\ calls = 0
    /\ inOrder = TRUE
    /\ explicitSet = FALSE
    /\ setArgs = [n |-> 0, ntt |-> None, repeat |-> FALSE]

\* HeunDiscreteScheduler(**build)
DoConstruct ==
    LET e == ConstructOutcome(build)
    IN  /\ last.op = "none"
        /\ sch' = IF e = "ok" THEN [i \in {1} |-> Construct(build)] ELSE sch
        /\ owner' = IF e = "ok" THEN [i \in {1} |-> 0] ELSE owner
        /\ setArgs' = IF e = "ok" THEN InitArgs(build) ELSE setArgs
        /\ last' = Call("init", 1, 0, 0, TRUE, Raised(e))
        /\ UNCHANGED <<calls, inOrder, explicitSet, loops, build>>

\* self.sigmas of _sigma_to_t's caller before subsampling, and its logarithms
TrainTable(self) == TrainSigmas(self.alphas_cumprod)
LogTable(self) == [k \in 1..Len(TrainTable(self)) |-> Ln(TrainTable(self)[k])]

StrictlyIncreasing(s) == \A k \in 1..(Len(s) - 1) : s[k] < s[k + 1]

\* sigmas the callers pass besides the entries of the table: below the smallest,
\* above the largest, and between two neighbours
ProbeSigmas(table) ==
    {x \in {1, At(table, 0) \div 2, At(table, 0) - 1, At(table, -1) + 1, 2 * At(table, -1)}
           \cup {(table[k] + table[k + 1]) \div 2 : k \in 1..(Len(table) - 1)} :
        x > 0 /\ x \notin Range(table)}

\* scheduler._sigma_to_t(sigma, log_sigmas); timestep is the place of sigma in
\* the training table, or -1.0 when sigma is not an entry of it, and index is
\* the low_idx the call picked
SigmaToTCall(i, sigma) ==
    LET table == TrainTable(sch[i])
        at == {t \in 0..(Len(table) - 1) : At(table, t) = sigma}
    IN  /\ last' = Call("_sigma_to_t", i, 0, IF at = {} THEN 0 - Q ELSE SetMin(at) * Q,
                        state_in_first_order(sch[i]),
                        [outcome |-> "ok", index |-> SigmaToTLowIdx(sigma, LogTable(sch[i])),
                         sigma |-> sigma, result |-> SigmaToT(sigma, LogTable(sch[i]))])
        /\ UNCHANGED <<sch, calls, inOrder, explicitSet, loops, owner, setArgs, build>>

\* the interpolation weight divides by log_sigmas[low] - log_sigmas[high]:
\* the tables read back are those whose logarithms are strictly increasing
DoSigmaToT ==
    \E i \in DOMAIN sch :
        /\ Len(TrainTable(sch[i])) >= 2
        /\ StrictlyIncreasing(LogTable(sch[i]))
        /\ \E sigma \in Range(TrainTable(sch[i])) \cup ProbeSigmas(TrainTable(sch[i])) :
               SigmaToTCall(i, sigma)

BuildNext == DoConstruct \/ DoSigmaToT

SpecBuild == BuildInit /\ [][BuildNext]_vars

\* ------------------------------------------------------------ UnCLIP image variation
\* UnCLIPImageVariationPipeline.__call__ as far as the shapes of its latents
\* go.  A tensor is its shape <<batch, channels, height, width>>.  The run is
\* loops[1]: pc, the arguments, the current latents, the decoder's result
\* image_small, the position in the current denoising loop, the denoising iterations entered so far and the
\* error that ended the run.

\* (batch_size, decoder.config.in_channels, sample_size, sample_size)
DecoderShape(batch_size) == <<batch_size, 3, 2, 2>>
\* (batch_size, super_res_first.config.in_channels // 2, sample_size, sample_size)
SuperResShape(batch_size) == <<batch_size, 3, 4, 4>>

\* latents a caller supplies
LatentArgs ==
    {None} \cup {Some(DecoderShape(b)) : b \in {1, 2}} \cup {Some(SuperResShape(b)) : b \in {1, 2}}

\* prepare_latents(shape, dtype, generator, latents, scheduler): [outcome, latents]
PrepareLatents(shape, latents) ==
    IF IsNone(latents) THEN [outcome |-> "ok", latents |-> shape]
    ELSE IF Val(latents) # shape THEN [outcome |-> "ValueError", latents |-> Val(latents)]
    ELSE [outcome |-> "ok", latents |-> Val(latents)]

\* "if decoder_latents is None: decoder_latents = self.prepare_latents(...)":
\* prepare_latents runs only when the caller supplied nothing
LatentsOrPrepared(shape, latents) ==
    IF IsNone(latents) THEN PrepareLatents(shape, latents)
    ELSE [outcome |-> "ok", latents |-> Val(latents)]

\* super_res_scheduler.timesteps as __call__ reads it after set_timesteps: one
\* descending entry per inference step, whatever the spacing
SuperResTimesteps(super_res_num_inference_steps) ==
    {[k \in 1..super_res_num_inference_steps |-> (super_res_num_inference_steps - k) * stride] :
        stride \in {1, 3}}

\* mutant: super_res_first on every iteration
SuperResUnetFirstAlways(i, timesteps) == "super_res_first"

\* "if i == super_res_timesteps_tensor.shape[0] - 1: unet = self.super_res_last"
SuperResUnet(i, timesteps) ==
    IF i = Len(timesteps) - 1 THEN "super_res_last" ELSE "super_res_first"

\* "if i + 1 == super_res_timesteps_tensor.shape[0]: prev_timestep = None"
PrevTimestep(i, timesteps) ==
    IF i + 1 = Len(timesteps) THEN None ELSE Some(At(timesteps, i + 1))

UnclipInit ==
    /\ \E b \in {1, 2} : \E dl \in LatentArgs : \E sl \in LatentArgs :
       \E dn \in 1..MaxUnclipSteps : \E sn \in 1..MaxUnclipSteps :
       \E ts \in SuperResTimesteps(sn) :
          loops = [k \in {1} |->
                     [pc |-> "start", batch_size |-> b,
                      decoder_latents |-> dl, super_res_latents |-> sl,
                      decoder_num_inference_steps |-> dn,
                      super_res_num_inference_steps |-> sn,
                      super_res_timesteps |-> ts,
                      latents |-> <<>>, image_small |-> <<>>,
                      pos |-> 0, entered |-> 0, error |-> "none",
                      unet |-> "none", prev_timestep |-> None]]
    /\ sch = <<>>
    /\ owner = <<>>
    /\ last = Call("none", 1, 0, 0, TRUE, Returned)
    /\ calls = 0
    /\ inOrder = TRUE
    /\ explicitSet = FALSE
    /\ setArgs = [n |-> 0, ntt |-> None, repeat |-> FALSE]
    /\ build = <<>>

UnclipUnchanged == UNCHANGED <<sch, owner, calls, inOrder, explicitSet, setArgs, build>>

\* decoder_scheduler.set_timesteps(...) and the decoder latents
UnclipDecoderSetup ==
    LET run == loops[1]
        r == LatentsOrPrepared(DecoderShape(run.batch_size), run.decoder_latents)
    IN  /\ run.pc = "start"
        /\ loops' = [loops EXCEPT ![1] =
                        IF r.outcome = "ok"
                        THEN [run EXCEPT !.pc = "decoder", !.latents = r.latents]
                        ELSE [run EXCEPT !.pc = "failed", !.error = r.outcome]]
        /\ last' = Call("decoder_setup", 1, run.decoder_num_inference_steps, 0, TRUE,
                        Raised(r.outcome))
        /\ UnclipUnchanged

\* one iteration of the decoder loop: self.decoder(...), decoder_scheduler.step(...).
\* What the network does with latents of another shape is not in this code:
\* it raises or it returns a prediction of the latents' shape.
UnclipDecoderStep(raises) ==
    LET run == loops[1]
        fits == run.latents = DecoderShape(run.batch_size)
        e == IF ~fits /\ raises THEN "RuntimeError" ELSE "ok"
    IN  /\ run.pc = "decoder"
        /\ loops' = [loops EXCEPT ![1] =
                        IF e # "ok"
                        THEN [run EXCEPT !.pc = "failed", !.error = e, !.entered = @ + 1]
                        ELSE [run EXCEPT !.pos = @ + 1, !.entered = @ + 1,
                                         !.pc = IF run.pos + 1 = run.decoder_num_inference_steps
                                                THEN "super_res_setup" ELSE "decoder"]]
        /\ last' = Call("decoder_step", 1, 0, run.pos, TRUE, Raised(e))
        /\ UnclipUnchanged

\* super_res_scheduler.set_timesteps(...) and the super resolution latents
UnclipSuperResSetup ==
    LET run == loops[1]
        r == LatentsOrPrepared(SuperResShape(run.batch_size), run.super_res_latents)
    IN  /\ run.pc = "super_res_setup"
        /\ loops' = [loops EXCEPT ![1] =
                        IF r.outcome = "ok"
                        THEN [run EXCEPT !.pc = "super_res", !.latents = r.latents,
                                         !.image_small = run.latents, !.pos = 0]
                        ELSE [run EXCEPT !.pc = "failed", !.error = r.outcome]]
        /\ last' = Call("super_res_setup", 1, run.super_res_num_inference_steps, 0, TRUE,
                        Raised(r.outcome))
        /\ UnclipUnchanged

\* F.interpolate(image_small, size=[height, width])
ImageUpscaled(image_small, want) == <<image_small[1], image_small[2], want[3], want[4]>>

\* one iteration of the super resolution loop: the unet is chosen;
\* paddle.concat([super_res_latents, image_upscaled], axis=1) needs the other
\* three dimensions to agree; then the unet, given
\* super_res_first.config.in_channels channels or not, prev_timestep, and
\* super_res_scheduler.step(..., prev_timestep=prev_timestep)
UnclipSuperResStep(raises) ==
    LET run == loops[1]
        want == SuperResShape(run.batch_size)
        up == ImageUpscaled(run.image_small, want)
        concat == /\ run.latents[1] = up[1] /\ run.latents[3] = up[3]
                  /\ run.latents[4] = up[4]
        fits == run.latents[2] + up[2] = 2 * want[2]
        e == IF ~concat THEN "ConcatError"
             ELSE IF ~fits /\ raises THEN "RuntimeError" ELSE "ok"
    IN  /\ run.pc = "super_res"
        /\ loops' = [loops EXCEPT ![1] =
                        IF e # "ok"
                        THEN [run EXCEPT !.pc = "failed", !.error = e, !.entered = @ + 1,
                                         !.unet = SuperResUnet(run.pos, run.super_res_timesteps)]
                        ELSE [run EXCEPT !.pos = @ + 1, !.entered = @ + 1,
                                         !.unet = SuperResUnet(run.pos, run.super_res_timesteps),
                                         !.prev_timestep =
                                             PrevTimestep(run.pos, run.super_res_timesteps),
                                         !.pc = IF run.pos + 1 = Len(run.super_res_timesteps)
                                                THEN "done" ELSE "super_res"]]
        /\ last' = Call("super_res_step", 1, 0, run.pos, TRUE, Raised(e))
        /\ UnclipUnchanged

DoUnclipDecoderStep == \E raises \in BOOLEAN : UnclipDecoderStep(raises)
DoUnclipSuperResStep == \E raises \in BOOLEAN : UnclipSuperResStep(raises)

UnclipNext ==
    UnclipDecoderSetup \/ DoUnclipDecoderStep \/ UnclipSuperResSetup \/ DoUnclipSuperResStep

SpecUnclip == UnclipInit /\ [][UnclipNext]_vars

\* ------------------------------------------------------------ DanceDiffusion
\* DanceDiffusionPipeline.__call__ as far as the length of the audio goes.
\* Lengths in samples are counted in half samples where they can be
\* fractional: audio_length_in_s is a number of half seconds and
\* unet.config.sample_rate a whole number of samples per second.  The run is
\* loops[1]: pc, the arguments, the unet's configuration, the locals
\* sample_size and original_sample_size, the shape of audio, the position in
\* the denoising loop and the error that ended the run.

\* the unets: len(up_blocks), config.sample_rate, config.sample_size
DanceUnets ==
    {[up_blocks |-> u, sample_rate |-> r, sample_size |-> z] :
        u \in 0..MaxUpBlocks, r \in {1, 2, 3}, z \in {5, 8}}

\* audio_length_in_s the callers pass, in half seconds: none, a negative length,
\* and 0 to MaxHalfSeconds
DanceLengths == {None} \cup {Some(h) : h \in (0 - 1)..MaxHalfSeconds}

\* generator: none or one generator, or a list of 1 or 2 generators
DanceGenerators == {None, Some(1), Some(2)}

\* lines 69-72: sample_size = audio_length_in_s * sample_rate, in half samples
RequestedHalfSamples(unet, audio_length_in_s) ==
    IF IsNone(audio_length_in_s) THEN 2 * unet.sample_size
    ELSE Val(audio_length_in_s) * unet.sample_rate

\* 2 ** len(self.unet.up_blocks)
DownScaleFactor(unet) == 2 ^ unet.up_blocks

\* int(x) of a length of h half samples: towards zero
IntOfHalves(h) == IF h >= 0 THEN h \div 2 ELSE 0 - ((0 - h) \div 2)

\* mutant: one more block even when the length is a multiple already
DenoiseSizeAlwaysRaised(h, down_scale_factor) ==
    ((h \div (2 * down_scale_factor)) + 1) * down_scale_factor

\* lines 79-85: the sample_size the model is run at, in samples
DenoiseSize(h, down_scale_factor) ==
    IF h % (2 * down_scale_factor) # 0
    THEN ((h \div (2 * down_scale_factor)) + 1) * down_scale_factor
    ELSE IntOfHalves(h)

\* audio[:, :, :original_sample_size]
CutLast(shape, n) == <<shape[1], shape[2], IF shape[3] < n THEN shape[3] ELSE n>>

DanceInit ==
    /\ \E unet \in DanceUnets : \E b \in {1, 2} : \E n \in 1..2 :
       \E len \in DanceLengths : \E g \in DanceGenerators :
          loops = [k \in {1} |->
                     [pc |-> "start", unet |-> unet, batch_size |-> b,
                      num_inference_steps |-> n, audio_length_in_s |-> len, generator |-> g,
                      sample_size |-> 0, original_sample_size |-> 0,
                      audio |-> <<>>, pos |-> 0, error |-> "none", line |-> 0]]
    /\ sch = <<>>
    /\ owner = <<>>
    /\ last = Call("none", 1, 0, 0, TRUE, Returned)
    /\ calls = 0
    /\ inOrder = TRUE
    /\ explicitSet = FALSE
    /\ setArgs = [n |-> 0, ntt |-> None, repeat |-> FALSE]
    /\ build = <<>>

\* lines 69-94: the two checks and the noise the loop starts from; line is the
\* line of the raise that ended the run
DanceSetup ==
    LET run == loops[1]
        h == RequestedHalfSamples(run.unet, run.audio_length_in_s)
        down_scale_factor == DownScaleFactor(run.unet)
        sample_size == DenoiseSize(h, down_scale_factor)
        line == IF h < 2 * 3 * down_scale_factor THEN 75
                ELSE IF ~IsNone(run.generator) /\ Val(run.generator) # run.batch_size THEN 89
                ELSE 0
    IN  /\ run.pc = "start"
        /\ loops' = [loops EXCEPT ![1] =
                        IF line # 0
                        THEN [run EXCEPT !.pc = "failed", !.error = "ValueError",
                                         !.line = line]
                        ELSE [run EXCEPT !.pc = "denoise",
                                         !.original_sample_size = IntOfHalves(h),
                                         !.sample_size = sample_size,
                                         !.audio = <<run.batch_size, 2, sample_size>>]]
        /\ last' = Call("dance_setup", 1, run.num_inference_steps, 0, TRUE,
                        Raised(IF line # 0 THEN "ValueError" ELSE "ok"))
        /\ UnclipUnchanged

\* lines 98-103: one iteration; the unet and the scheduler return tensors of
\* the shape they are given
DanceStep ==
    LET run == loops[1]
    IN  /\ run.pc = "denoise"
        /\ loops' = [loops EXCEPT ![1] =
                        [run EXCEPT !.pos = @ + 1,
                                    !.pc = IF run.pos + 1 = run.num_inference_steps
                                           THEN "cut" ELSE "denoise"]]
        /\ last' = Call("dance_step", 1, 0, run.pos, TRUE, Returned)
        /\ UnclipUnchanged

\* lines 105-109: the audio is clipped, cut and returned
DanceReturn ==
    LET run == loops[1]
    IN  /\ run.pc = "cut"
        /\ loops' = [loops EXCEPT ![1] =
                        [run EXCEPT !.pc = "done",
                                    !.audio = CutLast(run.audio, run.original_sample_size)]]
        /\ last' = Call("dance_return", 1, 0, 0, TRUE, Returned)
        /\ UnclipUnchanged

DanceNext == DanceSetup \/ DanceStep \/ DanceReturn

SpecDance == DanceInit /\ [][DanceNext]_vars

\* ------------------------------------------------------------ deprecate
\* utils.deprecate(*args, take_from=...).  A version is [release, dev]: the
\* release number and whether it is a development version of that release,
\* which sorts just before it.  A deprecation tuple is
\* <<attribute, version_name>>: the message plays no part but in the text of
\* the warnings.  The run is loops[1]: pc, the arguments, the library
\* version, the keys left in the take_from dict, the values and the warnings
\* so far, the position in args, and the error or the result of the call.

\* from ..version import VERSION: the version of the library at hand
LibraryVersions == {[release |-> 2, dev |-> FALSE], [release |-> 2, dev |-> TRUE]}

\* version.parse(v) as it is ordered: a development version before its release
VersionKey(v) == 2 * v.release - (IF v.dev THEN 1 ELSE 0)

\* version.parse(v).base_version: the release without the development suffix
BaseVersion(v) == [v EXCEPT !.dev = FALSE]

\* the names the callers deprecate, and the keys and attributes they pass on;
\* "pop" is not a key of any dict here, but an attribute of every dict
DeprecatedNames == {"a", "b", "pop"}
DictAttributes == {"pop"}

DeprecationTuples ==
    {<<attribute, [release |-> r, dev |-> FALSE]>> : attribute \in DeprecatedNames, r \in {2, 3}}

\* *args: one to MaxTuples tuples
DeprecateArgs ==
    UNION {[1..n -> DeprecationTuples] : n \in 1..MaxTuples}

\* take_from: None, a dict with these keys, or an object with these attributes
TakeFroms ==
    {[kind |-> "None", keys |-> {}]}
    \cup {[kind |-> "dict", keys |-> ks] : ks \in SUBSET {"a", "b", "c"}}
    \cup {[kind |-> "object", keys |-> ks] : ks \in SUBSET {"a", "b"}}

\* hasattr(deprecated_kwargs, attribute)
HasAttr(kind, keys, attribute) ==
    IF kind = "dict" THEN attribute \in DictAttributes
    ELSE IF kind = "object" THEN attribute \in keys
    ELSE FALSE

\* lines 36-37: the tuple is overdue
Overdue(library, version_name) ==
    VersionKey(BaseVersion(library)) >= VersionKey(version_name)

\* mutant: one value is returned as a tuple of one
DeprecateResultAlwaysTuple(values) ==
    IF Len(values) = 0 THEN [kind |-> "None", value |-> <<>>]
    ELSE [kind |-> "tuple", value |-> values]

\* lines 68-72: nothing, the value, or the tuple of values
DeprecateResult(values) ==
    IF Len(values) = 0 THEN [kind |-> "None", value |-> <<>>]
    ELSE IF Len(values) = 1 THEN [kind |-> "value", value |-> values[1]]
    ELSE [kind |-> "tuple", value |-> values]

\* lines 28-33: the call has read the version and wrapped a single tuple
DeprecateInit ==
    /\ \E library \in LibraryVersions : \E args \in DeprecateArgs : \E tf \in TakeFroms :
          loops = [k \in {1} |->
                     [pc |-> "loop", library |-> library, args |-> args,
                      kind |-> tf.kind, given |-> tf.keys, deprecated_kwargs |-> tf.keys,
                      values |-> <<>>, warnings |-> <<>>, pos |-> 0,
                      error |-> "none", result |-> [kind |-> "None", value |-> <<>>]]]
    /\ sch = <<>>
    /\ owner = <<>>
    /\ last = Call("none", 1, 0, 0, TRUE, Returned)
    /\ calls = 0
    /\ inOrder = TRUE
    /\ explicitSet = FALSE
    /\ setArgs = [n |-> 0, ntt |-> None, repeat |-> FALSE]
    /\ build = <<>>

\* lines 35-56: one deprecation tuple
DeprecateTuple ==
    LET run == loops[1]
        attribute == run.args[run.pos + 1][1]
        version_name == run.args[run.pos + 1][2]
    IN  /\ run.pc = "loop"
        /\ run.pos < Len(run.args)
        /\ loops' = [loops EXCEPT ![1] =
             IF Overdue(run.library, version_name)
             THEN [run EXCEPT !.pc = "raised", !.error = "ValueError"]
             ELSE IF run.kind = "dict" /\ attribute \in run.deprecated_kwargs
             THEN [run EXCEPT !.pos = @ + 1,
                              !.values = Append(@, <<"value", attribute>>),
                              !.deprecated_kwargs = @ \ {attribute},
                              !.warnings = Append(@, <<attribute, "argument">>)]
             ELSE IF HasAttr(run.kind, run.deprecated_kwargs, attribute)
             THEN [run EXCEPT !.pos = @ + 1,
                              !.values = Append(@, <<"attribute", attribute>>),
                              !.warnings = Append(@, <<attribute, "attribute">>)]
             ELSE IF run.kind = "None"
             THEN [run EXCEPT !.pos = @ + 1,
                              !.warnings = Append(@, <<attribute, "plain">>)]
             ELSE [run EXCEPT !.pos = @ + 1]]
        /\ last' = Call("deprecate_tuple", 1, 0, run.pos, TRUE,
                        Raised(IF Overdue(run.library, version_name)
                               THEN "ValueError" ELSE "ok"))
        /\ UnclipUnchanged

\* lines 58-72: a key is left in the dict, or the call returns
DeprecateReturn ==
    LET run == loops[1]
        left == run.kind = "dict" /\ run.deprecated_kwargs # {}
    IN  /\ run.pc = "loop"
        /\ run.pos = Len(run.args)
        /\ loops' = [loops EXCEPT ![1] =
             IF left THEN [run EXCEPT !.pc = "raised", !.error = "TypeError"]
             ELSE [run EXCEPT !.pc = "returned", !.result = DeprecateResult(run.values)]]
        /\ last' = Call("deprecate_return", 1, 0, run.pos, TRUE,
                        Raised(IF left THEN "TypeError" ELSE "ok"))
        /\ UnclipUnchanged

DeprecateNext == DeprecateTuple \/ DeprecateReturn

SpecDeprecate == DeprecateInit /\ [][DeprecateNext]_vars

\* ------------------------------------------------------------ properties
NonIncreasing(s) == \A k \in 1..(Len(s) - 1) : s[k] >= s[k + 1]
Pending(self) == ~state_in_first_order(self)

\* C1: counting the step calls that returned since the most recent
\* set_timesteps, the scheduler is corrector-pending after an odd number of
\* calls and predictor-ready after an even number (zero included).
C1_PhaseFollowsParity ==
    \A i \in DOMAIN sch : (calls % 2 = 1) <=> Pending(sch[i])

C1_Witness ==
    /\ calls = 3
    /\ last.op = "step" /\ last.outcome = "ok"
    /\ Pending(sch[1])

\* C2 as stated: in an in-order run, after the second of two consecutive step
\* calls at the same nominal timestep the engine is predictor-ready with the
\* integrator state empty.
C2_SecondVisitLeavesEmpty ==
    \A i \in DOMAIN sch :
        (/\ inOrder /\ calls >= 2
         /\ At(sch[i].timesteps, calls - 1) = At(sch[i].timesteps, calls - 2))
        => (/\ state_in_first_order(sch[i])
            /\ IsNone(sch[i].prev_derivative) /\ IsNone(sch[i].sample))

\* C2 amended: in an in-order run the first visit to a duplicated timestep is
\* the corrector of the interval that ends there and leaves the integrator
\* state empty; the second visit is the predictor of the next interval and
\* leaves derivative, dt and sample stored.
C2_VisitsAreCorrectorThenPredictor ==
    \A i \in DOMAIN sch :
        LET ts == sch[i].timesteps
        IN  /\ (/\ inOrder /\ calls >= 1 /\ calls < Len(ts)
                /\ At(ts, calls - 1) = At(ts, calls))
               => (/\ state_in_first_order(sch[i])
                   /\ IsNone(sch[i].prev_derivative) /\ IsNone(sch[i].sample))
            /\ (/\ inOrder /\ calls >= 2
                /\ At(ts, calls - 1) = At(ts, calls - 2))
               => (/\ Pending(sch[i])
                   /\ ~IsNone(sch[i].prev_derivative) /\ ~IsNone(sch[i].sample))

C2_Witness ==
    /\ inOrder /\ calls = 3
    /\ last.op = "step" /\ last.outcome = "ok" /\ last.first
    /\ At(sch[1].timesteps, 2) = At(sch[1].timesteps, 1)
    /\ Pending(sch[1])

C4_DtNullIffDerivativeNull ==
    \A i \in DOMAIN sch :
        /\ IsNone(sch[i].dt) <=> IsNone(sch[i].prev_derivative)
        /\ state_in_first_order(sch[i]) <=> IsNone(sch[i].prev_derivative)

C4_Witness ==
    /\ last.op = "step" /\ last.outcome = "ok" /\ ~last.first
    /\ calls = 2
    /\ IsNone(sch[1].dt) /\ IsNone(sch[1].prev_derivative)

\* C5: after set_timesteps(N), N >= 1, timesteps is non-increasing and has
\* 2N-1 entries, sigmas has len(timesteps)+1 entries and its last entry is 0.
C5_ScheduleShape ==
    \A i \in DOMAIN sch :
        setArgs.n >= 1
        => /\ Len(sch[i].timesteps) = 2 * setArgs.n - 1
           /\ NonIncreasing(sch[i].timesteps)
           /\ Len(sch[i].sigmas) = Len(sch[i].timesteps) + 1
           /\ At(sch[i].sigmas, -1) = 0

C5_Witness ==
    /\ last.op = "set_timesteps" /\ last.n = 2
    /\ sch[1].use_karras_sigmas
    /\ Len(sch[1].timesteps) = 3
    /\ At(sch[1].timesteps, 0) > At(sch[1].timesteps, 1)

\* C6: step with a timestep that does not occur in timesteps raises a lookup
\* error and leaves timesteps, sigmas and the integrator state as they were.
C6_UnknownTimestepRaises ==
    [][\A i \in DOMAIN sch :
         (/\ last'.op = "step" /\ last'.inst = i
          /\ last'.timestep \notin Range(sch[i].timesteps))
         => (last'.outcome = "LookupError" /\ sch' = sch)]_vars

\* the failed call came while a corrector sub-step was pending
C6_Witness ==
    /\ last.op = "step" /\ last.outcome = "LookupError"
    /\ last.timestep \notin Range(sch[1].timesteps)
    /\ Pending(sch[1]) /\ calls = 1

\* C7 as stated: before any explicit set_timesteps call, step raises a lookup
\* error for every timestep value.
C7_StepBeforeSetTimestepsRaises ==
    (~explicitSet /\ last.op = "step") => last.outcome = "LookupError"

\* C7 amended: __init__ installs the schedule of
\* set_timesteps(num_train_timesteps), so before any explicit set_timesteps
\* call step raises a lookup error exactly for the timestep values that are
\* not in that schedule.
C7_StepBeforeSetTimestepsUsesDefault ==
    \A i \in DOMAIN sch :
        ~explicitSet
        => (/\ Len(sch[i].timesteps) = 2 * sch[i].config.num_train_timesteps - 1
            /\ sch[i].num_inference_steps = Some(sch[i].config.num_train_timesteps)
            /\ (last.op = "step" /\ last.inst = i)
               => (last.outcome = "LookupError"
                     <=> last.timestep \notin Range(sch[i].timesteps)))

C7_Witness ==
    /\ ~explicitSet
    /\ last.op = "step" /\ last.outcome = "ok"
    /\ last.timestep \in Range(sch[1].timesteps)

\* C9: add_noise and scale_model_input leave every field of the scheduler as
\* it was, in either phase.
C9_QueriesLeaveStateAlone ==
    [][(last'.op \in {"add_noise", "scale_model_input"}) => sch' = sch]_vars

C9_Witness ==
    /\ last.op = "add_noise" /\ last.outcome = "ok"
    /\ Pending(sch[1])

\* the instance in the other phase, everything else the same
InPhase(self, first) == [self EXCEPT !.dt = IF first THEN None ELSE Some(0)]

\* C10 as stated: add_noise resolves a timestep with the first-order
\* tie-break (the last matching index) whatever the current phase.
C10_AddNoiseUsesFirstOrderTieBreak ==
    \A i \in DOMAIN sch : \A t \in Range(sch[i].timesteps) :
        \A o \in Originals : \A e \in Noises :
            AddNoiseFn(sch[i], o, e, t).index = SetMax(Matches(sch[i].timesteps, t))

\* C10 amended: add_noise resolves a timestep with the tie-break of the
\* current phase (last match when predictor-ready, first match when
\* corrector-pending); both matches carry the same sigma, so for the same
\* schedule and arguments it uses the same sigma and returns the same result
\* in either phase.
C10_AddNoiseSameSigmaInBothPhases ==
    \A i \in DOMAIN sch : \A t \in TimestepArgs(sch[i]) :
        \A o \in Originals : \A e \in Noises :
            LET a == AddNoiseFn(InPhase(sch[i], TRUE), o, e, t)
                b == AddNoiseFn(InPhase(sch[i], FALSE), o, e, t)
                m == Matches(sch[i].timesteps, t)
            IN  /\ a.outcome = b.outcome
                /\ a.sigma = b.sigma
                /\ a.result = b.result
                /\ m # {} => (a.index = SetMax(m) /\ b.index = SetMin(m))

\* add_noise at a duplicated timestep while a corrector sub-step is pending
C10_Witness ==
    /\ last.op = "add_noise" /\ last.outcome = "ok" /\ ~last.first
    /\ Cardinality(Matches(sch[1].timesteps, last.timestep)) = 2
    /\ last.index = SetMin(Matches(sch[1].timesteps, last.timestep))

\* C8: when each sampling loop has its own scheduler instance, every
\* interleaving gives each loop the latents and the scheduler phase it has when
\* it runs alone, and no step call consumes state another loop stored; on one
\* shared instance a step call of one loop can run as the corrector of the
\* other loop's predictor and consume its derivative, dt and sample
\* (C8_Witness reaches that state).
C8_OwnInstanceLoopsAreIsolated ==
    DOMAIN sch = LoopIds
    => \A k \in LoopIds :
          loops[k].pc # "start"
          => LET solo == Solo(sch[k].config, loops[k].n, loops[k].noise, loops[k].pos)
             IN  /\ loops[k].pc # "failed"
                 /\ ~loops[k].foreign
                 /\ loops[k].latents = solo.latents
                 /\ sch[k] = solo.self
                 /\ state_in_first_order(sch[k]) <=> (loops[k].pos % 2 = 0)

\* on a shared instance: loop k ran a step as corrector on the state the other
\* loop stored, and its latents are not those of running alone
C8_Witness ==
    /\ DOMAIN sch = {1}
    /\ \E k \in LoopIds :
          /\ loops[k].foreign
          /\ last.op = "step" /\ ~last.first /\ last.outcome = "ok"
          /\ loops[k].latents = last.result
          /\ loops[k].latents #
                Solo(sch[1].config, loops[k].n, loops[k].noise, loops[k].pos).latents

\* C11: a set_timesteps call that returns with the arguments of the returning
\* set_timesteps call before it installs the timesteps and sigmas that call
\* installed, whether or not step calls came in between; no other call
\* changes the two arrays.
C11_SameArgumentsSameSchedule ==
    [][\A i \in DOMAIN sch :
         LET same == /\ sch'[i].timesteps = sch[i].timesteps
                     /\ sch'[i].sigmas = sch[i].sigmas
         IN  IF last'.op = "set_timesteps" /\ last'.outcome = "ok" /\ last'.inst = i
             THEN setArgs'.repeat => same
             ELSE same]_vars

\* the repeated call came while a corrector sub-step was pending
C11_Witness ==
    /\ last.op = "set_timesteps" /\ last.outcome = "ok" /\ ~last.first
    /\ setArgs.repeat /\ setArgs.n = 2
    /\ Len(sch[1].timesteps) = 3

\* C12 as stated: set_timesteps with num_inference_steps < 1 fails instead of
\* installing a schedule.
C12_NoStepsIsRejected ==
    \A i \in DOMAIN sch :
        (last.op = "set_timesteps" /\ last.inst = i /\ last.n < 1)
        => last.outcome # "ok"

\* C13 as stated: __init__ fails, and no scheduler is constructed, when
\* beta_schedule is not one of linear, scaled_linear, squaredcos_cap_v2 (and
\* no betas are supplied) and when the supplied betas do not have
\* num_train_timesteps entries.
C13_BadConfigurationIsRejected ==
    (/\ last.op = "init"
     /\ \/ /\ IsNone(build.trained_betas)
           /\ build.beta_schedule \notin {"linear", "scaled_linear", "squaredcos_cap_v2"}
        \/ /\ ~IsNone(build.trained_betas)
           /\ Len(Val(build.trained_betas)) # build.num_train_timesteps)
    => (last.outcome # "ok" /\ sch = <<>>)

\* C18: for beta_schedule linear, scaled_linear and squaredcos_cap_v2 (with
\* beta_start <= beta_end inside (0, 1) and no betas supplied) the constructed
\* betas have num_train_timesteps entries, each strictly between 0 and 1, and
\* alphas_cumprod is non-increasing.
C18_BetasInRange ==
    \A i \in DOMAIN sch :
        Supported(build)
        => (/\ Len(sch[i].betas) = build.num_train_timesteps
            /\ \A k \in 1..Len(sch[i].betas) : 0 < sch[i].betas[k] /\ sch[i].betas[k] < P
            /\ Len(sch[i].alphas_cumprod) = build.num_train_timesteps
            /\ NonIncreasing(sch[i].alphas_cumprod))

\* the cosine schedule, its last beta capped at max_beta
C18_Witness ==
    /\ last.op = "init" /\ last.outcome = "ok"
    /\ Supported(build) /\ build.beta_schedule = "squaredcos_cap_v2"
    /\ build.num_train_timesteps = 3
    /\ At(sch[1].betas, -1) = MaxBeta
    /\ At(sch[1].alphas_cumprod, 0) > At(sch[1].alphas_cumprod, 1)

\* C19: without Karras sigmas and with a strictly increasing training sigma
\* table, _sigma_to_t of the training sigma at index t returns t for every t
\* strictly inside the training range.
C19_SigmaToTRoundTrip ==
    \A i \in DOMAIN sch :
        (/\ last.op = "_sigma_to_t" /\ last.inst = i
         /\ ~sch[i].use_karras_sigmas
         /\ StrictlyIncreasing(TrainTable(sch[i]))
         /\ Q <= last.timestep /\ last.timestep < (Len(TrainTable(sch[i])) - 1) * Q)
        => (/\ last.sigma = At(TrainTable(sch[i]), last.timestep \div Q)
            /\ last.result = last.timestep)

C19_Witness ==
    /\ last.op = "_sigma_to_t" /\ last.timestep = 2 * Q
    /\ build.beta_schedule = "scaled_linear" /\ Supported(build)
    /\ Len(TrainTable(sch[1])) = 4
    /\ StrictlyIncreasing(TrainTable(sch[1]))
    /\ last.result = 2 * Q

PlainSchedule(self) ==
    /\ setArgs.n >= 1
    /\ setArgs.ntt \in {None, Some(self.config.num_train_timesteps)}
    /\ ~self.use_karras_sigmas

\* C15 as stated: after set_timesteps(N), N >= 1, init_noise_sigma is the
\* largest entry of sigmas and add_noise(original, noise, num_train_timesteps-1)
\* returns original + noise * init_noise_sigma.
C15_AddNoiseAtLastTrainingTimestep ==
    \A i \in DOMAIN sch : \A o \in Originals : \A e \in Noises :
        PlainSchedule(sch[i])
        => LET a == AddNoiseFn(sch[i], o, e, (sch[i].config.num_train_timesteps - 1) * Q)
           IN  /\ sch[i].init_noise_sigma = SeqMax(sch[i].sigmas)
               /\ a.outcome = "ok"
               /\ a.result = o + Mul(e, sch[i].init_noise_sigma)

\* C15 amended: after set_timesteps(N), N >= 1, init_noise_sigma is the
\* largest entry of sigmas, which is sigmas[0], and add_noise at timesteps[0]
\* returns original + noise * init_noise_sigma.  Without Karras sigmas and for
\* N >= 2, timesteps[0] is num_train_timesteps-1; for N = 1 timesteps is [0]
\* and add_noise at num_train_timesteps-1 raises the lookup error when
\* num_train_timesteps > 1.
C15_AddNoiseAtFirstTimestep ==
    \A i \in DOMAIN sch : \A o \in Originals : \A e \in Noises :
        setArgs.n >= 1
        => LET T == sch[i].config.num_train_timesteps
               a == AddNoiseFn(sch[i], o, e, At(sch[i].timesteps, 0))
               b == AddNoiseFn(sch[i], o, e, (T - 1) * Q)
           IN  /\ sch[i].init_noise_sigma = SeqMax(sch[i].sigmas)
               /\ sch[i].init_noise_sigma = At(sch[i].sigmas, 0)
               /\ a.outcome = "ok" /\ a.sigma = sch[i].init_noise_sigma
               /\ a.result = o + Mul(e, sch[i].init_noise_sigma)
               /\ (PlainSchedule(sch[i]) /\ setArgs.n >= 2)
                  => (At(sch[i].timesteps, 0) = (T - 1) * Q /\ b = a)
               /\ (PlainSchedule(sch[i]) /\ setArgs.n = 1 /\ T > 1)
                  => (sch[i].timesteps = <<0>> /\ b.outcome = "LookupError")
               /\ (last.op = "add_noise" /\ last.inst = i
                   /\ last.timestep = At(sch[i].timesteps, 0))
                  => (last.outcome = "ok" /\ last.sigma = sch[i].init_noise_sigma)

\* add_noise at num_train_timesteps-1 after set_timesteps(2), a corrector pending
C15_Witness ==
    /\ last.op = "add_noise" /\ last.outcome = "ok" /\ ~last.first
    /\ PlainSchedule(sch[1]) /\ setArgs.n = 2 /\ explicitSet
    /\ last.timestep = (sch[1].config.num_train_timesteps - 1) * Q
    /\ last.sigma = sch[1].init_noise_sigma
    /\ last.result = 2 * Q + Mul(0 - Q, sch[1].init_noise_sigma)

\* timesteps before duplication: entry k (0-based) of the N values
Undup(ts, k) == IF k = 0 THEN At(ts, 0) ELSE At(ts, 2 * k - 1)
Abs(x) == IF x >= 0 THEN x ELSE 0 - x

\* C16 as stated: for every N >= 1 the timesteps before duplication start at
\* num_train_timesteps-1 and end at 0.
C16_FirstIsLastTrainingTimestep ==
    \A i \in DOMAIN sch :
        PlainSchedule(sch[i])
        => (/\ At(sch[i].timesteps, 0) = (sch[i].config.num_train_timesteps - 1) * Q
            /\ At(sch[i].timesteps, -1) = 0)

\* C16 amended: without Karras sigmas, for N >= 2 the timesteps before
\* duplication are N linearly spaced values, strictly decreasing from
\* num_train_timesteps-1 to 0 (entry k is (N-1-k)(num_train_timesteps-1)/(N-1)
\* up to float32 rounding); for N = 1 the only timestep is 0.
C16_LinearlySpacedFromTwoSteps ==
    \A i \in DOMAIN sch :
        (setArgs.n >= 1 /\ ~sch[i].use_karras_sigmas)
        => LET n == setArgs.n
               T == IF IsNone(setArgs.ntt) THEN sch[i].config.num_train_timesteps
                    ELSE Val(setArgs.ntt)
               ts == sch[i].timesteps
           IN  /\ Len(ts) = 2 * n - 1
               /\ \A k \in 1..(n - 1) : At(ts, 2 * k) = At(ts, 2 * k - 1)
               /\ At(ts, -1) = 0
               /\ n = 1 => ts = <<0>>
               /\ n >= 2
                  => /\ At(ts, 0) = (T - 1) * Q
                     /\ \A k \in 0..(n - 1) :
                           Abs((n - 1) * Undup(ts, k) - (n - 1 - k) * (T - 1) * Q)
                              <= 2 * (n - 1)
                     /\ T > 1 => \A k \in 0..(n - 2) : Undup(ts, k) > Undup(ts, k + 1)

\* set_timesteps(3) for 3 training steps: [2.0, 1.0, 0.0] before duplication
C16_Witness ==
    /\ last.op = "set_timesteps" /\ last.outcome = "ok" /\ setArgs.n = 3
    /\ PlainSchedule(sch[1]) /\ explicitSet
    /\ sch[1].timesteps = <<2 * Q, Q, Q, 0, 0>>

\* k is the last (the first) 0-based position of t in ts
IsLastMatch(ts, t, k) == At(ts, k) = t /\ \A j \in (k + 1)..(Len(ts) - 1) : At(ts, j) # t
IsFirstMatch(ts, t, k) == At(ts, k) = t /\ \A j \in 0..(k - 1) : At(ts, j) # t

\* C20: index_for_timestep resolves a timestep of the schedule to its last
\* position when the scheduler is predictor-ready and to its first position
\* when it is corrector-pending; a timestep that occurs once resolves to its
\* only position in both phases.  Every call that looks a timestep up (step,
\* add_noise, scale_model_input) used the position of its phase.
C20_TieBreakFollowsPhase ==
    \A i \in DOMAIN sch :
        LET ts == sch[i].timesteps
        IN  /\ \A t \in Range(ts) :
                  LET a == index_for_timestep(InPhase(sch[i], TRUE), t, ts)
                      b == index_for_timestep(InPhase(sch[i], FALSE), t, ts)
                  IN  /\ IsLastMatch(ts, t, a)
                      /\ IsFirstMatch(ts, t, b)
                      /\ Cardinality(Matches(ts, t)) = 1 => a = b
                      /\ index_for_timestep(sch[i], t, ts)
                            = IF state_in_first_order(sch[i]) THEN a ELSE b
            /\ (/\ last.op \in {"step", "add_noise", "scale_model_input"}
                /\ last.inst = i /\ last.outcome = "ok")
               => IF last.first THEN IsLastMatch(ts, last.timestep, last.index)
                  ELSE IsFirstMatch(ts, last.timestep, last.index)

\* a corrector step at a duplicated timestep used its first position
C20_Witness ==
    /\ last.op = "step" /\ last.outcome = "ok" /\ ~last.first
    /\ Cardinality(Matches(sch[1].timesteps, last.timestep)) = 2
    /\ IsFirstMatch(sch[1].timesteps, last.timestep, last.index)
    /\ ~IsLastMatch(sch[1].timesteps, last.timestep, last.index)

\* the caller supplied latents of another shape than the configured one
WrongLatents(run) ==
    \/ /\ ~IsNone(run.decoder_latents)
       /\ Val(run.decoder_latents) # DecoderShape(run.batch_size)
    \/ /\ ~IsNone(run.super_res_latents)
       /\ Val(run.super_res_latents) # SuperResShape(run.batch_size)

\* C17 as stated: a run given decoder_latents or super_res_latents of another
\* shape than the configured one fails with the shape-mismatch error
\* (ValueError of prepare_latents) before any denoising iteration is entered.
C17_WrongShapeFailsAtOnce ==
    (WrongLatents(loops[1]) /\ loops[1].pc # "start")
    => (/\ loops[1].pc = "failed" /\ loops[1].error = "ValueError"
        /\ loops[1].entered = 0)

\* ------------------------------------------------------------ the two sub-steps
\* the indices of sigmas that a returning step call read
SigmaReads(call) ==
    IF call.first THEN {call.index, call.index + 1} ELSE {call.index - 1, call.index}

\* C21: in a run that calls step once per entry of timesteps, in order, every
\* corrector call reads the same (sigma, sigma_next) as the predictor call just
\* before it, and every index of sigmas that a call reads lies in
\* 0..len(sigmas)-1.
C21_CorrectorReadsPredictorPair ==
    [][(last'.op = "step" /\ last'.outcome = "ok" /\ inOrder')
        => /\ \A j \in SigmaReads(last') :
                0 <= j /\ j <= Len(sch'[last'.inst].sigmas) - 1
           /\ last'.pair = <<At(sch'[last'.inst].sigmas, SetMin(SigmaReads(last'))),
                             At(sch'[last'.inst].sigmas, SetMax(SigmaReads(last')))>>
           /\ ~last'.first => (last.pair # <<>> /\ last'.pair = last.pair)]_vars

\* an in-order run has made its second corrector call, at a duplicated entry,
\* and its pair is a descent between two different sigmas
C21_Witness ==
    /\ last.op = "step" /\ last.outcome = "ok" /\ inOrder
    /\ ~last.first
    /\ calls = 4
    /\ last.pair[1] > last.pair[2]
    /\ last.pair[2] > 0

\* C22: a predictor call returns sample + derivative * dt with
\* derivative = (sample - pred_original) / sigma and dt = sigma_next - sigma,
\* and stores that derivative, that dt and its sample argument; with
\* prediction_type epsilon the derivative is model_output.
C22_PredictorAdvancesAndStores ==
    (last.op = "step" /\ last.outcome = "ok" /\ last.first)
        => LET self == sch[last.inst]
               model_output == last.args[1]
               sample == last.args[2]
               sigma == last.pair[1]
               sigma_next == last.pair[2]
               pred_original_sample ==
                   PredOriginal(self.config.prediction_type, sample, model_output, sigma)
               derivative == Div(sample - pred_original_sample, sigma)
               dt == sigma_next - sigma
           IN  /\ last.result = sample + Mul(derivative, dt)
               /\ self.prev_derivative = Some(derivative)
               /\ self.dt = Some(dt)
               /\ self.sample = Some(sample)
               /\ self.config.prediction_type = "epsilon" => derivative = model_output

\* a predictor call with prediction_type epsilon has moved the sample
C22_Witness ==
    /\ last.op = "step" /\ last.outcome = "ok" /\ last.first
    /\ sch[last.inst].config.prediction_type = "epsilon"
    /\ last.pair[2] < last.pair[1]
    /\ last.result # last.args[2]
    /\ sch[last.inst].prev_derivative = Some(last.args[1])

\* C23: a corrector call returns
\* stored_sample + ((stored_derivative + derivative2) / 2) * stored_dt with
\* derivative2 = (sample - pred_original) / sigma_next computed from the sample
\* it is given; the base point and dt are the ones the predictor stored, and
\* the stored values are empty afterwards.
C23_CorrectorAveragesFromStoredPoint ==
    [][(last'.op = "step" /\ last'.outcome = "ok" /\ ~last'.first)
        => LET self == sch[last'.inst]
               model_output == last'.args[1]
               sample == last'.args[2]
               sigma_next == last'.pair[2]
               pred_original_sample ==
                   PredOriginal(self.config.prediction_type, sample, model_output,
                                sigma_next)
               derivative2 == Div(sample - pred_original_sample, sigma_next)
               derivative == (Val(self.prev_derivative) + derivative2) \div 2
           IN  /\ last'.result = Val(self.sample) + Mul(derivative, Val(self.dt))
               /\ sch'[last'.inst] = [self EXCEPT !.prev_derivative = None, !.dt = None,
                                                  !.sample = None]]_vars

\* the corrector call of an in-order run was given the sample 3.0, has returned
\* a point below 1.0 and has left the stored values empty
C23_Witness ==
    /\ last.op = "step" /\ last.outcome = "ok" /\ ~last.first
    /\ calls = 2 /\ inOrder
    /\ state_in_first_order(sch[last.inst])
    /\ last.args[2] = 3 * Q
    /\ last.result < Q

\* ------------------------------------------------------------ duplication
\* the locals of the set_timesteps call that installed the current schedule
PreDuplication ==
    ScheduleTable[build][setArgs.n][setArgs.ntt]

\* installed entries 2k-1 and 2k (0-based) are both entry k of the sequence
\* before duplication
TwiceAt(installed, before, k) ==
    /\ At(installed, 2 * k - 1) = Float32(At(before, k))
    /\ At(installed, 2 * k) = Float32(At(before, k))

\* C24 as stated: in both sequences every interior entry is duplicated once
\* and neither the first nor the last entry is.
C24_NeitherEndIsDuplicated ==
    setArgs.n >= 2
        => LET n == setArgs.n
           IN  /\ Len(sch[1].timesteps) = 2 * (n - 2) + 2
               /\ At(sch[1].timesteps, 0) = Float32(At(PreDuplication.pre_timesteps, 0))
               /\ At(sch[1].timesteps, -1) = Float32(At(PreDuplication.pre_timesteps, -1))
               /\ \A k \in 1..(n - 2) :
                      TwiceAt(sch[1].timesteps, PreDuplication.pre_timesteps, k)
               /\ Len(sch[1].sigmas) = 2 * (n - 1) + 2

\* C24: for N >= 1 set_timesteps installs the first timestep once and every
\* later timestep, the last one included, twice in a row (2N-1 entries); of the
\* N+1 sigmas, the appended 0.0 included, it installs the first and the last
\* once and every entry between them twice in a row (2N entries).
C24_AllButFirstTimestepAndInteriorSigmas ==
    setArgs.n >= 1
        => LET n == setArgs.n
           IN  /\ Len(PreDuplication.pre_timesteps) = n
               /\ Len(PreDuplication.pre_sigmas) = n + 1
               /\ Len(sch[1].timesteps) = 2 * n - 1
               /\ At(sch[1].timesteps, 0) = Float32(At(PreDuplication.pre_timesteps, 0))
               /\ \A k \in 1..(n - 1) :
                      TwiceAt(sch[1].timesteps, PreDuplication.pre_timesteps, k)
               /\ Len(sch[1].sigmas) = 2 * n
               /\ At(sch[1].sigmas, 0) = At(PreDuplication.pre_sigmas, 0)
               /\ At(sch[1].sigmas, -1) = At(PreDuplication.pre_sigmas, -1)
               /\ At(sch[1].sigmas, -1) = 0
               /\ \A k \in 1..(n - 1) :
                      TwiceAt(sch[1].sigmas, PreDuplication.pre_sigmas, k)

\* set_timesteps(3) has returned: the last of the three timesteps fills the last
\* two places of timesteps, and differs from the one before it
C24_Witness ==
    /\ last.op = "set_timesteps" /\ last.outcome = "ok"
    /\ setArgs.n = 3
    /\ Len(sch[1].timesteps) = 5
    /\ At(sch[1].timesteps, 3) = At(sch[1].timesteps, 4)
    /\ At(sch[1].timesteps, 2) # At(sch[1].timesteps, 3)
    /\ At(sch[1].sigmas, 4) # At(sch[1].sigmas, 5)

\* ------------------------------------------------------------ _sigma_to_t off the table
\* C25: for every positive sigma, also below the smallest and above the largest
\* training sigma, _sigma_to_t over a table of num_train_timesteps >= 2 entries
\* picks a low index in 0..num_train_timesteps-2 and returns a fractional
\* index in [0, num_train_timesteps-1].
C25_SigmaToTStaysInRange ==
    (/\ last.op = "_sigma_to_t"
     /\ Len(TrainTable(sch[1])) = build.num_train_timesteps)
        => /\ last.sigma > 0
           /\ 0 <= last.index /\ last.index <= build.num_train_timesteps - 2
           /\ 0 <= last.result /\ last.result <= (build.num_train_timesteps - 1) * Q
           /\ last.index * Q <= last.result /\ last.result <= (last.index + 1) * Q

\* a sigma above the whole table of four entries has been clamped: low index
\* 2 and not 3, fractional index 3.0
C25_Witness ==
    /\ last.op = "_sigma_to_t"
    /\ Len(TrainTable(sch[1])) = build.num_train_timesteps
    /\ build.num_train_timesteps = 4
    /\ last.sigma > At(TrainTable(sch[1]), -1)
    /\ last.index = 2 /\ last.result = 3 * Q

\* ------------------------------------------------------------ corrector at the first entry
\* C26 as stated: whatever the order of the step calls, as long as their
\* timesteps occur in timesteps, a corrector call resolves a step_index >= 1,
\* so that sigmas[step_index - 1] is the entry before it and not the terminal
\* sigma 0.0 at the other end of the array.
C26_CorrectorIndexIsPositive ==
    (last.op = "step" /\ last.outcome = "ok" /\ ~last.first)
        => /\ last.index >= 1
           /\ last.sigma = sch[last.inst].sigmas[last.index]
           /\ last.sigma > 0

\* ------------------------------------------------------------ the end of a run
\* step has returned once for each entry of timesteps, in order
RunComplete ==
    inOrder /\ calls >= 1 /\ calls = Len(sch[1].timesteps)

\* C27 as stated: after the 2N-1 in-order calls the scheduler stays
\* corrector-pending until the next set_timesteps call: no other call ends
\* the pending state.
C27_PendingUntilSetTimesteps ==
    [][(RunComplete /\ Pending(sch[1]) /\ ~Pending(sch'[1]))
        => last'.op = "set_timesteps"]_vars

\* C27: the last of the 2N-1 in-order calls is a predictor call from the last
\* non-zero sigma to the terminal 0.0, it returns the predicted original
\* sample, and it leaves the scheduler corrector-pending; the pending state
\* then lasts until a set_timesteps call or a further step call returns.
C27_RunEndsPendingAtOriginal ==
    [][/\ (last'.op = "step" /\ RunComplete')
            => LET self == sch'[1]
                   sigma == At(self.sigmas, -2)
               IN  /\ last'.first
                   /\ sigma > 0
                   /\ At(self.sigmas, -1) = 0
                   /\ last'.pair = <<sigma, 0>>
                   /\ last'.result = PredOriginal(self.config.prediction_type,
                                                   last'.args[2], last'.args[1], sigma)
                   /\ self.dt = Some(0 - sigma)
       /\ RunComplete' => Pending(sch'[1])
       /\ (RunComplete /\ Pending(sch[1]) /\ ~Pending(sch'[1]))
            => (last'.op \in {"set_timesteps", "step"} /\ last'.outcome = "ok")]_vars

\* a run of five calls over the schedule of set_timesteps(3) is complete, and a
\* query has been answered since without ending the pending state
C27_Witness ==
    /\ RunComplete
    /\ calls = 5
    /\ last.op = "scale_model_input"
    /\ Pending(sch[1])
    /\ last.pair = <<At(sch[1].sigmas, -2), 0>>

\* ------------------------------------------------------------ the two super resolution unets
\* C28: iteration i of the super resolution loop runs super_res_last when it is
\* the final one and super_res_first otherwise (a loop of one iteration runs
\* super_res_last only), and the prev_timestep it passes to the scheduler's
\* step is None on the final iteration and the next timestep otherwise.
C28_LastUnetOnFinalIterationOnly ==
    last.op = "super_res_step"
        => LET run == loops[1]
               i == last.timestep
               final == i = run.super_res_num_inference_steps - 1
           IN  /\ Len(run.super_res_timesteps) = run.super_res_num_inference_steps
               /\ run.unet = IF final THEN "super_res_last" ELSE "super_res_first"
               /\ last.outcome = "ok"
                    => /\ IsNone(run.prev_timestep) <=> final
                       /\ ~final => run.prev_timestep = Some(run.super_res_timesteps[i + 2])

\* the first of two iterations has run super_res_first and passed the second
\* timestep on
C28_Witness ==
    /\ last.op = "super_res_step" /\ last.outcome = "ok"
    /\ loops[1].super_res_num_inference_steps = 2
    /\ last.timestep = 0
    /\ loops[1].unet = "super_res_first"
    /\ loops[1].super_res_timesteps = <<3, 0>>
    /\ loops[1].prev_timestep = Some(0)

\* ------------------------------------------------------------ the length of the audio
\* C29: DanceDiffusionPipeline raises ValueError for every requested length
\* below 3 * 2^len(up_blocks) samples; every other call (whose generator list,
\* if any, has batch_size entries) denoises at the smallest multiple of
\* 2^len(up_blocks) that is >= the requested length, and returns audio whose
\* last dimension is int(audio_length_in_s * sample_rate).
C29_AudioLength ==
    LET run == loops[1]
        h == RequestedHalfSamples(run.unet, run.audio_length_in_s)
        d == 2 ^ run.unet.up_blocks
        generators == IsNone(run.generator) \/ Val(run.generator) = run.batch_size
        whole == IF h % 2 = 0 THEN h \div 2 ELSE (h - 1) \div 2
    IN  run.pc # "start"
        => /\ h < 6 * d => (run.pc = "failed" /\ run.error = "ValueError" /\ run.line = 75)
           /\ (h >= 6 * d /\ generators) => run.pc \in {"denoise", "cut", "done"}
           /\ run.pc \in {"denoise", "cut", "done"}
                => /\ h >= 6 * d
                   /\ run.sample_size % d = 0
                   /\ 2 * run.sample_size >= h
                   /\ 2 * (run.sample_size - d) < h
                   /\ run.pc # "done" => run.audio[3] = run.sample_size
           /\ run.pc = "done" => run.audio[3] = whole

\* a call for 7.5 samples with one up block has denoised at 8 samples and
\* returned 7
C29_Witness ==
    /\ last.op = "dance_return"
    /\ loops[1].pc = "done"
    /\ loops[1].unet.up_blocks = 1
    /\ RequestedHalfSamples(loops[1].unet, loops[1].audio_length_in_s) = 15
    /\ loops[1].sample_size = 8
    /\ loops[1].audio[3] = 7

\* ------------------------------------------------------------ deprecate's ways out
\* the attributes of the deprecation tuples of a call
AttributesOf(args) == {args[k][1] : k \in 1..Len(args)}

\* C30: with a dict take_from, deprecate returns only if every key of the dict
\* is among the deprecated attributes, and the dict is empty then; a key that
\* is left raises TypeError; a tuple whose removal version is <= the base
\* version of the library raises ValueError before its attribute is popped or
\* warned about; a call that returns gives None, the single value, or the
\* tuple of values, for 0, 1 or more values found.
C30_DeprecateWaysOut ==
    [][LET run == loops[1]
           after == loops'[1]
           overdue(k) == run.library.release >= run.args[k][2].release
       IN  (run.pc = "loop" /\ after.pc # "loop")
           => /\ after.error = "ValueError"
                    <=> (run.pos < Len(run.args) /\ overdue(run.pos + 1))
              /\ after.error = "ValueError"
                    => /\ after.deprecated_kwargs = run.deprecated_kwargs
                       /\ after.warnings = run.warnings
                       /\ after.values = run.values
                       /\ \A k \in 1..Len(run.warnings) :
                              run.warnings[k][1] # run.args[run.pos + 1][1]
                              \/ \E j \in 1..run.pos : run.args[j][1] = run.warnings[k][1]
              /\ after.error # "ValueError"
                    => /\ \A k \in 1..Len(run.args) : ~overdue(k)
                       /\ run.kind = "dict"
                            => run.deprecated_kwargs = run.given \ AttributesOf(run.args)
                       /\ after.error = "TypeError"
                            <=> (run.kind = "dict" /\ ~(run.given \subseteq AttributesOf(run.args)))
              /\ after.pc = "returned"
                    => /\ after.error = "none"
                       /\ run.kind = "dict"
                            => (after.deprecated_kwargs = {}
                                /\ run.given \subseteq AttributesOf(run.args))
                       /\ Len(after.values) = 0 => after.result.kind = "None"
                       /\ Len(after.values) = 1
                            => (after.result.kind = "value"
                                /\ after.result.value = after.values[1])
                       /\ Len(after.values) > 1
                            => (after.result.kind = "tuple"
                                /\ after.result.value = after.values)
                       /\ Len(after.values) =
                              Cardinality({k \in 1..Len(after.warnings) :
                                              after.warnings[k][2] # "plain"})]_vars

\* a call with the dict {a, b} and the tuples for a and b has returned the two
\* values as a tuple and left the dict empty, under a development version of
\* the library
C30_Witness ==
    /\ loops[1].pc = "returned"
    /\ loops[1].kind = "dict"
    /\ loops[1].given = {"a", "b"}
    /\ loops[1].deprecated_kwargs = {}
    /\ loops[1].library.dev
    /\ loops[1].result = [kind |-> "tuple", value |-> << <<"value", "a">>, <<"value", "b">> >>]

====
